---------------------------- MODULE Spec2Model ----------------------------
(***************************************************************************)
(* A model of terranotate: the comment parser (internal/parser), the       *)
(* schema validator (internal/validator), the fixer (internal/fixer) and   *)
(* the fix command (internal/app/fix.go).                                  *)
(*                                                                         *)
(* Text is modelled as a sequence of chunks.  A chunk is a string of       *)
(* characters of one class: a run of digits ("99"), a run of letters and   *)
(* underscores ("owner"), or one symbol (" ", "#", "@", ":", ".", ...).    *)
(* The text "# @metadata owner:x" is                                       *)
(*   <<"#", " ", "@", "metadata", " ", "owner", ":", "x">>.                *)
(* Input texts are canonical: no two neighbouring chunks are both runs of  *)
(* digits or both runs of letters, so equal texts are equal sequences.     *)
(***************************************************************************)
EXTENDS Integers, Sequences, FiniteSets, TLC

VARIABLES
    cv,   \* one call of CommentParser.parseValue: its argument and result
    mc,   \* one call of CommentParser.parseMultiLineComment
    lx,   \* one call of CommentParser.extractComments on a token stream
    ra,   \* one call of CommentParser.parseResource
    vr,   \* one call of SchemaValidator.ValidateResources
    fx,   \* one run of the fix command on a file
    pf,   \* one call of CommentParser.parseMultiLineComment on a block of key:value tokens
    vm,   \* ValidateResources on one resource under a schema and under the schema with one more requirement
    ap    \* a directory of Terraform files, a schema file, and the last command run on them

vars == <<cv, mc, lx, ra, vr, fx, pf, vm, ap>>

(***************************************************************************)
(* Bounds of the model.                                                    *)
(***************************************************************************)
MaxTokLen == 3      \* chunks in a value token handed to parseValue
MaxBodyLen == 2     \* chunks after the marker in a line of a comment block
MaxBlockLines == 2  \* lines in a comment block handed to parseMultiLineComment
MaxTokens == 3      \* tokens in a token stream handed to extractComments
MaxTokLine == 3     \* the last line a token of that stream may start on
MaxLine == 8        \* the last line of a file handed to parseResource
MaxComments == 2    \* structured comments of a file handed to parseResource
MaxPreceding == 1   \* comment lines above the declaration of a validated resource
MaxRes == 2         \* resources in a file handed to the fix command
MaxRuns == 2        \* runs of the fix command on a file
MaxPairs == 3       \* key:value tokens in a comment block handed to the field parser
MaxFiles == 2       \* Terraform files in the directory the commands run on
MaxOps == 2         \* commands run on the directory

(***************************************************************************)
(* Chunks and the string functions of package strings that the code uses.  *)
(***************************************************************************)
DigitChunks == {"0", "1", "3", "5", "9", "99", "555", "0000"}

DigitVal(c) ==
    CASE c = "0" -> 0 [] c = "1" -> 1 [] c = "3" -> 3 [] c = "5" -> 5
      [] c = "9" -> 9 [] c = "99" -> 99 [] c = "555" -> 555 [] c = "0000" -> 0

SymbolChunks == {" ", "\n", "#", "/", "*", "@", ":", ".", "-", "+", "[", "]", ",", "'"}

IsSpace(c) == c \in {" ", "\n"}

IsDigits(c) == c \in DigitChunks
IsSymbol(c) == c \in SymbolChunks
IsAlpha(c) == ~IsDigits(c) /\ ~IsSymbol(c)
IsWordChunk(c) == IsDigits(c) \/ IsAlpha(c)          \* the regexp class \w

SeqsUpTo(S, n) == UNION {[1..k -> S] : k \in 0..n}

Canonical(s) ==
    \A i \in 1..(Len(s) - 1) :
        /\ ~(IsDigits(s[i]) /\ IsDigits(s[i + 1]))
        /\ ~(IsAlpha(s[i]) /\ IsAlpha(s[i + 1]))

HasPrefix(s, p) == Len(p) <= Len(s) /\ SubSeq(s, 1, Len(p)) = p
HasSuffix(s, p) == Len(p) <= Len(s) /\ SubSeq(s, Len(s) - Len(p) + 1, Len(s)) = p
TrimPrefix(s, p) == IF HasPrefix(s, p) THEN SubSeq(s, Len(p) + 1, Len(s)) ELSE s
TrimSuffix(s, p) == IF HasSuffix(s, p) THEN SubSeq(s, 1, Len(s) - Len(p)) ELSE s

RECURSIVE TrimLeft(_)
TrimLeft(s) == IF s # <<>> /\ IsSpace(Head(s)) THEN TrimLeft(Tail(s)) ELSE s

RECURSIVE TrimRight(_)
TrimRight(s) ==
    IF s # <<>> /\ IsSpace(s[Len(s)]) THEN TrimRight(SubSeq(s, 1, Len(s) - 1)) ELSE s

TrimSpace(s) == TrimRight(TrimLeft(s))

Contains(s, c) == \E i \in 1..Len(s) : s[i] = c

\* strings.Index(s, t), counted from 1: 0 when t does not occur in s.
Index(s, t) ==
    LET at == {i \in 1..(Len(s) - Len(t) + 1) : SubSeq(s, i, i + Len(t) - 1) = t}
    IN  IF at = {} THEN 0 ELSE CHOOSE i \in at : \A j \in at : i <= j

ContainsText(s, t) == Index(s, t) # 0

\* strings.SplitN(s, sep, 2): s itself, or what lies before and after the
\* first occurrence of sep.
SplitN2(s, sep) ==
    LET i == Index(s, <<sep>>)
    IN  IF i = 0 THEN <<s>> ELSE <<SubSeq(s, 1, i - 1), SubSeq(s, i + 1, Len(s))>>

\* strings.Split(s, sep) for a one-chunk separator: always at least one piece.
RECURSIVE SplitAcc(_, _, _)
SplitAcc(s, sep, cur) ==
    IF s = <<>> THEN <<cur>>
    ELSE IF Head(s) = sep THEN <<cur>> \o SplitAcc(Tail(s), sep, <<>>)
    ELSE SplitAcc(Tail(s), sep, Append(cur, Head(s)))

Split(s, sep) == SplitAcc(s, sep, <<>>)

\* strings.Join(pieces, sep) for a one-chunk separator.
RECURSIVE Join(_, _)
Join(pieces, sep) ==
    IF pieces = <<>> THEN <<>>
    ELSE IF Len(pieces) = 1 THEN pieces[1]
    ELSE pieces[1] \o <<sep>> \o Join(Tail(pieces), sep)

(***************************************************************************)
(* CommentParser.parseValue (parser.go 278-319).                           *)
(* Values are tagged: bool, int, float, list, str.                         *)
(***************************************************************************)
BoolV(b) == [t |-> "bool", v |-> b]
IntV(n) == [t |-> "int", v |-> n]
FloatV(neg, ip, fr) == [t |-> "float", v |-> [neg |-> neg, int |-> ip, frac |-> fr]]
ListV(items) == [t |-> "list", v |-> items]
StrV(s) == [t |-> "str", v |-> s]

IsSign(c) == c \in {"+", "-"}

\* fmt.Sscanf(value, "%d", &i): an optional sign, then the longest run of
\* digits, which must not be empty.  What follows the digits is left unread
\* and is no error: Sscanf reports the one item it stored.
ScanInt(value) ==
    LET signed == value # <<>> /\ IsSign(Head(value))
        rest == IF signed THEN Tail(value) ELSE value
    IN  IF rest # <<>> /\ IsDigits(Head(rest))
        THEN [ok |-> TRUE,
              v |-> IF signed /\ Head(value) = "-"
                    THEN 0 - DigitVal(Head(rest)) ELSE DigitVal(Head(rest))]
        ELSE [ok |-> FALSE, v |-> 0]

\* fmt.Sscanf(value, "%f", &f): sign, digits, ".", digits as far as they go
\* (scan.go floatToken; exponents, "nan" and "inf" are outside the chunks of
\* the model), then strconv.ParseFloat of what was read, which needs a digit.
ScanFloat(value) ==
    LET signed == value # <<>> /\ IsSign(Head(value))
        r1 == IF signed THEN Tail(value) ELSE value
        hasInt == r1 # <<>> /\ IsDigits(Head(r1))
        r2 == IF hasInt THEN Tail(r1) ELSE r1
        hasDot == r2 # <<>> /\ Head(r2) = "."
        r3 == IF hasDot THEN Tail(r2) ELSE r2
        hasFrac == hasDot /\ r3 # <<>> /\ IsDigits(Head(r3))
    IN  IF hasInt \/ hasFrac
        THEN [ok |-> TRUE,
              v |-> FloatV(signed /\ Head(value) = "-",
                           IF hasInt THEN DigitVal(Head(r1)) ELSE 0,
                           IF hasFrac THEN Head(r3) ELSE "")]
        ELSE [ok |-> FALSE, v |-> FloatV(FALSE, 0, "")]

TrimItems(items) == [i \in 1..Len(items) |-> TrimSpace(items[i])]

parseValue(raw) ==
    LET value == TrimSpace(raw) IN
    IF value = <<"true">> THEN BoolV(TRUE)
    ELSE IF value = <<"false">> THEN BoolV(FALSE)
    ELSE IF ScanInt(value).ok THEN IntV(ScanInt(value).v)
    ELSE IF ScanFloat(value).ok THEN ScanFloat(value).v
    ELSE IF HasPrefix(value, <<"[">>) /\ HasSuffix(value, <<"]">>)
         THEN ListV(TrimItems(Split(TrimSuffix(TrimPrefix(value, <<"[">>), <<"]">>), ",")))
    ELSE StrV(value)

(***************************************************************************)
(* Comment fields: a Go map[string]interface{} is a function from keys     *)
(* (texts) to tagged values; a nested map is the value [t |-> "map"].      *)
(***************************************************************************)
EmptyMap == [k \in {} |-> 0]
MapV(m) == [t |-> "map", v |-> m]
Put(m, k, x) == (k :> x) @@ m

\* setNestedField when it makes room for the path: a value that is not a map
\* at an intermediate segment is replaced by an empty map and the walk goes on.
RECURSIVE setNestedOverwrite(_, _, _, _, _)
setNestedOverwrite(m, parts, i, key, value) ==
    IF i = Len(parts) THEN Put(m, parts[i], parseValue(value))
    ELSE LET part == parts[i]
             m1 == IF part \in DOMAIN m /\ m[part].t = "map" THEN m
                   ELSE Put(m, part, MapV(EmptyMap))
         IN  Put(m1, part,
                 MapV(setNestedOverwrite(m1[part].v, parts, i + 1, key, value)))

\* CommentParser.setNestedField (parser.go 252-276), from segment i on, in
\* the map m that the walk has reached.
RECURSIVE setNestedFrom(_, _, _, _, _)
setNestedFrom(m, parts, i, key, value) ==
    IF i = Len(parts) THEN Put(m, parts[i], parseValue(value))
    ELSE LET part == parts[i]
             m1 == IF part \in DOMAIN m THEN m ELSE Put(m, part, MapV(EmptyMap))
         IN  IF m1[part].t = "map"
             THEN Put(m1, part, MapV(setNestedFrom(m1[part].v, parts, i + 1, key, value)))
             ELSE Put(m1, key, parseValue(value))

\* setNestedField without its walk: the value goes under the whole dotted key.
setNestedFlat(fields, key, value) == Put(fields, key, parseValue(value))

setNestedField(fields, key, value) ==
    setNestedFrom(fields, Split(key, "."), 1, key, value)

\* The matches of regexp ([\w\.]+):(\S+) in a line, leftmost first and not
\* overlapping: a longest run of word and dot chunks, a colon, and a longest
\* run of chunks that are not white space.
IsKeyChunk(c) == IsWordChunk(c) \/ c = "."

RECURSIVE RunEnd(_, _, _)
RunEnd(line, i, inKey) ==
    IF i + 1 <= Len(line)
       /\ (IF inKey THEN IsKeyChunk(line[i + 1]) ELSE ~IsSpace(line[i + 1]))
    THEN RunEnd(line, i + 1, inKey) ELSE i

RECURSIVE FindAllPairs(_, _)
FindAllPairs(line, i) ==
    IF i > Len(line) THEN <<>>
    ELSE IF ~IsKeyChunk(line[i]) THEN FindAllPairs(line, i + 1)
    ELSE LET j == RunEnd(line, i, TRUE) IN
         IF j + 2 <= Len(line) /\ line[j + 1] = ":" /\ ~IsSpace(line[j + 2])
         THEN LET k == RunEnd(line, j + 2, FALSE)
              IN  <<[key |-> SubSeq(line, i, j), value |-> SubSeq(line, j + 2, k)]>>
                      \o FindAllPairs(line, k + 1)
         ELSE FindAllPairs(line, j + 1)

\* CommentParser.extractKeyValuePairs (parser.go 229-249): the matches of a
\* line, stored in turn.
RECURSIVE storePairs(_, _)
storePairs(matches, fields) ==
    IF matches = <<>> THEN fields
    ELSE LET key == Head(matches).key
             value == TrimSpace(Head(matches).value)
         IN  storePairs(Tail(matches),
                        IF Contains(key, ".") THEN setNestedField(fields, key, value)
                        ELSE Put(fields, key, parseValue(value)))

extractKeyValuePairs(line, fields) == storePairs(FindAllPairs(line, 1), fields)

\* matchPrefix without its break: the last configured prefix that the line
\* starts with wins.
RECURSIVE matchPrefixNoBreak(_, _)
matchPrefixNoBreak(prefixes, line) ==
    IF prefixes = <<>> THEN <<>>
    ELSE IF matchPrefixNoBreak(Tail(prefixes), line) # <<>>
    THEN matchPrefixNoBreak(Tail(prefixes), line)
    ELSE IF HasPrefix(line, Head(prefixes)) THEN Head(prefixes)
    ELSE <<>>

\* The first configured prefix, in configured order, that the line starts
\* with; the empty text when there is none (parser.go 157-163, 200-206).
RECURSIVE matchPrefix(_, _)
matchPrefix(prefixes, line) ==
    IF prefixes = <<>> THEN <<>>
    ELSE IF HasPrefix(line, Head(prefixes)) THEN Head(prefixes)
    ELSE matchPrefix(Tail(prefixes), line)

AnyPrefixMatches(prefixes, line) ==
    \E i \in 1..Len(prefixes) : HasPrefix(line, prefixes[i])

RECURSIVE pairsOfLines(_, _)
pairsOfLines(lines, fields) ==
    IF lines = <<>> THEN fields
    ELSE LET line == TrimSpace(Head(lines))
         IN  pairsOfLines(Tail(lines),
                          IF line = <<>> THEN fields
                          ELSE extractKeyValuePairs(line, fields))

ContentKey == <<"_content">>

\* CommentParser.parseCommentFields (parser.go 190-226).
parseCommentFields(prefixes, text) ==
    LET split == Split(text, "\n")
        first == split[1]
        lines == IF AnyPrefixMatches(prefixes, first)
                 THEN [split EXCEPT ![1] =
                          TrimSpace(TrimPrefix(first, matchPrefix(prefixes, first)))]
                 ELSE split
        fields == pairsOfLines(lines, EmptyMap)
        fullContent == TrimSpace(Join(lines, "\n"))
    IN  IF fullContent # <<>> THEN Put(fields, ContentKey, StrV(fullContent))
        ELSE fields

\* The cleaning loop of parseMultiLineComment (parser.go 142-150): the
\* comment marker and the white space around the text go, and a line that
\* is empty after that is left out.
cleanLine(line) == TrimSpace(TrimPrefix(TrimPrefix(line, <<"/", "/">>), <<"#">>))

RECURSIVE cleanLines(_)
cleanLines(lines) ==
    IF lines = <<>> THEN <<>>
    ELSE (IF cleanLine(Head(lines)) # <<>> THEN <<cleanLine(Head(lines))>> ELSE <<>>)
             \o cleanLines(Tail(lines))

NoComment == [some |-> FALSE]

\* CommentParser.parseMultiLineComment (parser.go 136-182); NoComment is nil.
parseMultiLineComment(prefixes, lines, startLine, endLine) ==
    LET cleanedLines == cleanLines(lines) IN
    IF lines = <<>> \/ cleanedLines = <<>> THEN NoComment
    ELSE LET matchedPrefix == matchPrefix(prefixes, cleanedLines[1])
             fullText == Join(cleanedLines, "\n")
         IN  IF matchedPrefix = <<>> THEN NoComment
             ELSE [some |-> TRUE,
                   Prefix |-> matchedPrefix,
                   Fields |-> parseCommentFields(prefixes, fullText),
                   Raw |-> fullText,
                   Line |-> startLine,
                   EndLine |-> endLine]

(***************************************************************************)
(* CommentParser.extractComments (parser.go 96-133).  A token has a Type   *)
(* ("comment" or "other"), the Line it starts on and its Text.  The loop   *)
(* is unfolded from token i on, with its three locals.  A block keeps the  *)
(* indexes of the tokens whose text it buffers.                            *)
(***************************************************************************)
\* blocksFrom without the test of the next token's line: comments that
\* follow each other as tokens are one block whatever lies between them.
RECURSIVE blocksFromAnyGap(_, _, _, _, _)
blocksFromAnyGap(tokens, i, commentBuffer, bufferStartLine, inMultiLine) ==
    IF i > Len(tokens) THEN <<>>
    ELSE IF tokens[i].Type # "comment"
    THEN blocksFromAnyGap(tokens, i + 1, commentBuffer, bufferStartLine, inMultiLine)
    ELSE LET line == tokens[i].Line
             start == IF ~inMultiLine THEN line ELSE bufferStartLine
             buffer == Append(commentBuffer, i)
             isLastToken == i = Len(tokens)
             nextIsComment == ~isLastToken /\ tokens[i + 1].Type = "comment"
         IN  IF isLastToken \/ ~nextIsComment
             THEN <<[toks |-> buffer, Line |-> start, EndLine |-> line]>>
                      \o blocksFromAnyGap(tokens, i + 1, <<>>, start, FALSE)
             ELSE blocksFromAnyGap(tokens, i + 1, buffer, start, TRUE)

RECURSIVE blocksFrom(_, _, _, _, _)
blocksFrom(tokens, i, commentBuffer, bufferStartLine, inMultiLine) ==
    IF i > Len(tokens) THEN <<>>
    ELSE IF tokens[i].Type # "comment"
    THEN blocksFrom(tokens, i + 1, commentBuffer, bufferStartLine, inMultiLine)
    ELSE LET line == tokens[i].Line
             start == IF ~inMultiLine THEN line ELSE bufferStartLine
             buffer == Append(commentBuffer, i)
             isLastToken == i = Len(tokens)
             nextIsComment == ~isLastToken /\ tokens[i + 1].Type = "comment"
             nextIsAdjacent == ~isLastToken /\ tokens[i + 1].Line = line + 1
         IN  IF isLastToken \/ ~nextIsComment \/ ~nextIsAdjacent
             THEN <<[toks |-> buffer, Line |-> start, EndLine |-> line]>>
                      \o blocksFrom(tokens, i + 1, <<>>, start, FALSE)
             ELSE blocksFrom(tokens, i + 1, buffer, start, TRUE)

commentBlocks(tokens) == blocksFrom(tokens, 1, <<>>, 0, FALSE)

blockTexts(tokens, block) == [k \in 1..Len(block.toks) |-> tokens[block.toks[k]].Text]

RECURSIVE structuredOf(_, _, _)
structuredOf(prefixes, tokens, blocks) ==
    IF blocks = <<>> THEN <<>>
    ELSE LET b == Head(blocks)
             structured == parseMultiLineComment(prefixes, blockTexts(tokens, b),
                                                 b.Line, b.EndLine)
         IN  (IF structured.some THEN <<structured>> ELSE <<>>)
                 \o structuredOf(prefixes, tokens, Tail(blocks))

extractComments(prefixes, tokens) ==
    structuredOf(prefixes, tokens, commentBlocks(tokens))

(***************************************************************************)
(* CommentParser.parseResource (parser.go 322-350): the comments of the    *)
(* file that a resource block takes as preceding and as inline comments.   *)
(* Attributes play no part in what follows and are left out.               *)
(***************************************************************************)
LookbackLines == 5

\* isPreceding with the window one line short.
isPrecedingShort(comment, StartLine) ==
    comment.Line < StartLine /\ comment.Line > StartLine - LookbackLines

isPreceding(comment, StartLine) ==
    comment.Line < StartLine /\ comment.Line >= StartLine - LookbackLines

isInline(comment, StartLine, EndLine) ==
    comment.Line >= StartLine /\ comment.Line <= EndLine

parseResource(block, comments) ==
    LET Prec(c) == isPreceding(c, block.StartLine)
        Inl(c) == isInline(c, block.StartLine, block.EndLine)
    IN  [Type |-> block.Type,
         Name |-> block.Name,
         StartLine |-> block.StartLine,
         EndLine |-> block.EndLine,
         PrecedingComments |-> SelectSeq(comments, Prec),
         InlineComments |-> SelectSeq(comments, Inl)]

\* The prefixes the commands configure the parser with (fix.go 69).
PMeta == <<"@", "metadata">>
PDocs == <<"@", "docs">>
PValidation == <<"@", "validation">>
PConfig == <<"@", "config">>
AppPrefixes == <<PMeta, PDocs, PValidation, PConfig>>

\* GetCommentsByPrefix over the preceding comments alone.
GetCommentsPrecedingOnly(r, prefix) ==
    LET HasIt(c) == c.Prefix = prefix
    IN  SelectSeq(r.PrecedingComments, HasIt)

\* TerraformResource.GetCommentsByPrefix (parser.go 360-373).
GetCommentsByPrefix(r, prefix) ==
    LET HasIt(c) == c.Prefix = prefix
    IN  SelectSeq(r.PrecedingComments \o r.InlineComments, HasIt)

(***************************************************************************)
(* Iteration over a Go map visits the keys in an order the run picks.  The *)
(* model takes the keys in one order or in the reverse of it, as the       *)
(* caller chooses: every order of a map of two keys.                       *)
(***************************************************************************)
Reverse(s) == [i \in 1..Len(s) |-> s[Len(s) + 1 - i]]

KeyOrders(keys) ==
    {s \in [1..Cardinality(keys) -> keys] : \A i, j \in DOMAIN s : s[i] = s[j] => i = j}

RangeOver(keys, rev) ==
    LET one == CHOOSE s \in KeyOrders(keys) : TRUE
    IN  IF rev THEN Reverse(one) ELSE one

RECURSIVE ConcatMap(_, _)
ConcatMap(F(_), s) == IF s = <<>> THEN <<>> ELSE F(Head(s)) \o ConcatMap(F, Tail(s))

(***************************************************************************)
(* The schema validator (validator.go).  A schema name (a prefix, a field, *)
(* a nested path) is a text; an error message is a text in which a fixed   *)
(* phrase of the format string is one chunk.                               *)
(***************************************************************************)
ValidationError(resource, line, message) ==
    [ResourceType |-> resource.Type,
     ResourceName |-> resource.Name,
     Line |-> line,
     Severity |-> "error",
     Message |-> message]

MissingPrefixMessage(prefix) ==
    <<"Missing required comment prefix", ":", " ">> \o prefix

MissingFieldMessage(prefix, field) ==
    prefix \o <<":", " ", "Missing required field", " ", "'">> \o field \o <<"'">>

MissingStructureMessage(prefix, nestedPath) ==
    prefix \o <<":", " ", "Missing nested structure", " ", "'">> \o nestedPath \o <<"'">>

MissingNestedFieldMessage(prefix, fullPath) ==
    prefix \o <<":", " ", "Missing required nested field", " ", "'">> \o fullPath \o <<"'">>

\* The messages of validateFieldValue, each with the phrase that tells it
\* from the others; numbers and Go type names are not spelled out.
FieldMessage(prefix, fieldName, phrase) ==
    prefix \o <<":", " ", "Field", " ", "'">> \o fieldName \o <<"'", " ", phrase>>

FieldValueMessage(prefix, fieldName, strVal, phrase) ==
    prefix \o <<":", " ", "Field", " ", "'">> \o fieldName
        \o <<"'", " ", "value", " ", "'">> \o strVal \o <<"'", " ", phrase>>

\* SchemaValidator.getApplicableRules (validator.go 152-162).
getApplicableRules(schema, resourceType) ==
    IF resourceType \in DOMAIN schema.ResourceTypes
    THEN schema.ResourceTypes[resourceType]
    ELSE [RequiredPrefixes |-> schema.Global.RequiredPrefixes,
          PrefixRules |-> schema.Global.PrefixRules]

\* checkRequiredPrefixes reporting only the last of the missing prefixes.
checkLastMissingPrefix(resource, rules) ==
    LET Missing(p) == GetCommentsByPrefix(resource, p) = <<>>
        missing == SelectSeq(rules.RequiredPrefixes, Missing)
    IN  IF missing = <<>> THEN <<>>
        ELSE <<ValidationError(resource, resource.StartLine,
                               MissingPrefixMessage(missing[Len(missing)]))>>

\* SchemaValidator.checkRequiredPrefixes (validator.go 175-192).
checkRequiredPrefixes(resource, rules) ==
    LET Check(requiredPrefix) ==
            IF Len(GetCommentsByPrefix(resource, requiredPrefix)) = 0
            THEN <<ValidationError(resource, resource.StartLine,
                                   MissingPrefixMessage(requiredPrefix))>>
            ELSE <<>>
    IN  ConcatMap(Check, rules.RequiredPrefixes)

\* SchemaValidator.fieldExists (validator.go 284-306), from segment i on.
RECURSIVE existsFrom(_, _, _)
existsFrom(current, parts, i) ==
    IF i > Len(parts) THEN FALSE
    ELSE IF parts[i] \notin DOMAIN current THEN FALSE
    ELSE IF i = Len(parts) THEN TRUE
    ELSE IF current[parts[i]].t = "map" THEN existsFrom(current[parts[i]].v, parts, i + 1)
    ELSE FALSE

\* fieldExists as a lookup of the whole path among the top-level keys.
fieldExistsFlat(fields, fieldPath) == fieldPath \in DOMAIN fields

fieldExists(fields, fieldPath) == existsFrom(fields, Split(fieldPath, "."), 1)

\* The walk of validateNestedFields stopped after the first segment of the
\* nested path.
walkFirstOnly(current, parts, i) ==
    IF parts[i] \notin DOMAIN current THEN [at |-> "absent", map |-> EmptyMap]
    ELSE IF current[parts[i]].t = "map" THEN [at |-> "found", map |-> current[parts[i]].v]
    ELSE [at |-> "notmap", map |-> EmptyMap]

\* The walk of validateNestedFields along the nested path (validator.go
\* 227-251): the map reached, or why the walk stopped.
RECURSIVE walkFrom(_, _, _)
walkFrom(current, parts, i) ==
    IF i > Len(parts) THEN [at |-> "found", map |-> current]
    ELSE IF parts[i] \notin DOMAIN current THEN [at |-> "absent", map |-> EmptyMap]
    ELSE IF current[parts[i]].t = "map" THEN walkFrom(current[parts[i]].v, parts, i + 1)
    ELSE [at |-> "notmap", map |-> EmptyMap]

\* SchemaValidator.validateNestedFields (validator.go 223-281).
validateNestedFields(resource, comment, prefix, nestedPath, rule) ==
    LET walk == walkFrom(comment.Fields, Split(nestedPath, "."), 1)
        Check(requiredField) ==
            IF Contains(requiredField, ".")
            THEN LET fullPath == nestedPath \o <<".">> \o requiredField
                 IN  IF ~fieldExists(comment.Fields, fullPath)
                     THEN <<ValidationError(resource, comment.Line,
                                MissingNestedFieldMessage(prefix, fullPath))>>
                     ELSE <<>>
            ELSE IF requiredField \notin DOMAIN walk.map
                 THEN <<ValidationError(resource, comment.Line,
                            MissingFieldMessage(prefix,
                                nestedPath \o <<".">> \o requiredField))>>
                 ELSE <<>>
    IN  IF walk.at = "notmap" THEN <<>>
        ELSE IF walk.at = "absent"
        THEN IF Len(rule.RequiredFields) > 0
             THEN <<ValidationError(resource, comment.Line,
                        MissingStructureMessage(prefix, nestedPath))>>
             ELSE <<>>
        ELSE ConcatMap(Check, rule.RequiredFields)

\* A float64 of a comment against a bound of the schema, a whole number.
FracIsZero(frac) == frac \in {"", "0", "0000"}
SignedInt(f) == IF f.neg THEN 0 - f.int ELSE f.int
FloatBelow(f, bound) ==
    \/ SignedInt(f) < bound
    \/ f.neg /\ SignedInt(f) = bound /\ ~FracIsZero(f.frac)
FloatAbove(f, bound) ==
    \/ SignedInt(f) > bound
    \/ ~f.neg /\ SignedInt(f) = bound /\ ~FracIsZero(f.frac)

\* len(strVal): the bytes of a text.
ChunkBytes(c) ==
    CASE c \in {"a", "x", "3", "9", "0", "1", "5"} -> 1
      [] c \in {"99"} -> 2
      [] c \in {"dev", "prod"} -> 3
      [] c \in {"team", "true"} -> 4
      [] c \in {"false", "owner"} -> 5
      [] c = "CHANGEME" -> 8
      [] OTHER -> 1

RECURSIVE TextBytes(_)
TextBytes(s) == IF s = <<>> THEN 0 ELSE ChunkBytes(Head(s)) + TextBytes(Tail(s))

\* SchemaValidator.validateFieldValue (validator.go 330-495).  A pattern is
\* the set of the texts it matches; no pattern is the empty text.
validateFieldValue(resource, comment, prefix, fieldName, fieldValue, validation) ==
    LET Err(phrase) ==
            <<ValidationError(resource, comment.Line,
                              FieldMessage(prefix, fieldName, phrase))>>
        ErrV(phrase) ==
            <<ValidationError(resource, comment.Line,
                              FieldValueMessage(prefix, fieldName, fieldValue.v, phrase))>>
    IN  CASE validation.Type = "string" ->
               IF fieldValue.t # "str" THEN Err("must be a string")
               ELSE (IF validation.Pattern # <<>> /\ fieldValue.v \notin validation.Matches
                     THEN ErrV("does not match required pattern") ELSE <<>>)
                    \o (IF Len(validation.AllowedValues) > 0
                           /\ ~(\E i \in 1..Len(validation.AllowedValues) :
                                    fieldValue.v = validation.AllowedValues[i])
                        THEN ErrV("not in allowed values") ELSE <<>>)
                    \o (IF validation.MinLength > 0
                           /\ TextBytes(fieldValue.v) < validation.MinLength
                        THEN Err("must be at least MinLength characters") ELSE <<>>)
          [] validation.Type = "boolean" ->
               IF fieldValue.t # "bool" THEN Err("must be a boolean") ELSE <<>>
          [] validation.Type = "integer" ->
               IF fieldValue.t # "int" THEN Err("must be an integer")
               ELSE (IF validation.Min # 0 /\ fieldValue.v < validation.Min
                     THEN Err("is below minimum") ELSE <<>>)
                    \o (IF validation.Max # 0 /\ fieldValue.v > validation.Max
                        THEN Err("exceeds maximum") ELSE <<>>)
          [] validation.Type = "float" ->
               IF fieldValue.t # "float" THEN Err("must be a float")
               ELSE (IF validation.Min # 0 /\ FloatBelow(fieldValue.v, validation.Min)
                     THEN Err("is below minimum") ELSE <<>>)
                    \o (IF validation.Max # 0 /\ FloatAbove(fieldValue.v, validation.Max)
                        THEN Err("exceeds maximum") ELSE <<>>)
          [] validation.Type = "array" ->
               IF fieldValue.t # "list" THEN Err("must be an array")
               ELSE IF validation.MinItems > 0 /\ Len(fieldValue.v) < validation.MinItems
                    THEN Err("must have at least MinItems items") ELSE <<>>
          [] OTHER -> <<>>

\* SchemaValidator.validateFieldValues (validator.go 309-327).
validateFieldValues(schema, resource, comment, prefix, rev) ==
    LET Check(fieldName) ==
            IF fieldName = ContentKey THEN <<>>
            ELSE IF fieldName \notin DOMAIN schema.FieldValidations THEN <<>>
            ELSE validateFieldValue(resource, comment, prefix, fieldName,
                                    comment.Fields[fieldName],
                                    schema.FieldValidations[fieldName])
    IN  ConcatMap(Check, RangeOver(DOMAIN comment.Fields, rev))

\* SchemaValidator.validatePrefixFields (validator.go 195-220).
validatePrefixFields(schema, resource, comment, prefix, rule, rev) ==
    LET Required(requiredField) ==
            IF ~fieldExists(comment.Fields, requiredField)
            THEN <<ValidationError(resource, comment.Line,
                                   MissingFieldMessage(prefix, requiredField))>>
            ELSE <<>>
        Nested(nestedPath) ==
            validateNestedFields(resource, comment, prefix, nestedPath,
                                 rule.NestedFields[nestedPath])
    IN  ConcatMap(Required, rule.RequiredFields)
            \o ConcatMap(Nested, RangeOver(DOMAIN rule.NestedFields, rev))
            \o validateFieldValues(schema, resource, comment, prefix, rev)

\* SchemaValidator.validateResource (validator.go 123-149).
validateResource(schema, resource, rev) ==
    LET rules == getApplicableRules(schema, resource.Type)
        OfPrefix(prefix) ==
            LET OfComment(comment) ==
                    validatePrefixFields(schema, resource, comment, prefix,
                                         rules.PrefixRules[prefix], rev)
            IN  ConcatMap(OfComment, GetCommentsByPrefix(resource, prefix))
    IN  checkRequiredPrefixes(resource, rules)
            \o ConcatMap(OfPrefix, RangeOver(DOMAIN rules.PrefixRules, rev))

ValidationResult(errors, passed) == [Errors |-> errors, Passed |-> passed]

\* One turn of the loop of ValidateResources in which the verdict is that of
\* the resource at hand, whatever it was before.
addLastVerdict(result, errors) ==
    ValidationResult(result.Errors \o errors, Len(errors) = 0)

\* One turn of the loop of ValidateResources (validator.go 111-117): the
\* errors of a resource are appended, and the verdict falls when there are any.
addErrors(result, errors) ==
    ValidationResult(result.Errors \o errors,
                     IF Len(errors) > 0 THEN FALSE ELSE result.Passed)

RECURSIVE validateResourcesFrom(_, _, _, _, _)
validateResourcesFrom(schema, resources, k, rev, result) ==
    IF k > Len(resources) THEN result
    ELSE validateResourcesFrom(schema, resources, k + 1, rev,
             addErrors(result, validateResource(schema, resources[k], rev)))

\* SchemaValidator.ValidateResources (validator.go 106-120).
ValidateResources(schema, resources, rev) ==
    validateResourcesFrom(schema, resources, 1, rev, ValidationResult(<<>>, TRUE))

(***************************************************************************)
(* The comment fixer (fixer.go).  A fix is a prefix and the placeholder of *)
(* each field to write after it.                                           *)
(***************************************************************************)
MissingPrefixPhrase == <<"Missing required comment prefix", ":">>
MissingFieldPhrase == <<"Missing required field">>

ResourceKey(type, name) == <<type, name>>

\* CommentFixer.groupErrorsByResource (fixer.go 84-99); no resource type of
\* the model carries a file name after it.
groupErrorsByResource(errors) ==
    LET keys == {ResourceKey(errors[i].ResourceType, errors[i].ResourceName) :
                    i \in 1..Len(errors)}
        Of(key) ==
            LET Mine(err) == ResourceKey(err.ResourceType, err.ResourceName) = key
            IN  SelectSeq(errors, Mine)
    IN  [key \in keys |-> Of(key)]

\* fmt.Sprintf("%d", n) for the numbers of the model.
IntText(n) == <<CHOOSE c \in DigitChunks \ {"0000"} : DigitVal(c) = n>>

\* CommentFixer.getPlaceholderValue (fixer.go 208-266).
getPlaceholderValue(schema, field) ==
    LET parts == Split(field, ".")
        fieldName == parts[Len(parts)]
        validation == schema.FieldValidations[fieldName]
    IN  CASE fieldName \in {<<"owner">>, <<"team">>, <<"cost_center">>, <<"department">>} ->
               <<"CHANGEME">>
          [] fieldName = <<"priority">> -> <<"medium">>
          [] fieldName = <<"environment">> -> <<"production">>
          [] fieldName = <<"email">> -> <<"changeme", "@", "example", ".", "com">>
          [] fieldName = <<"slack">> -> <<"@", "changeme">>
          [] fieldName = <<"phone">> -> <<"555", "-", "0000">>
          [] fieldName = <<"description">> ->
               <<"CHANGEME", ":", " ", "Add", " ", "description">>
          [] fieldName \in {<<"required">>, <<"enabled">>, <<"backup">>, <<"encrypted">>,
                            <<"backup_required">>, <<"mfa_required">>} -> <<"true">>
          [] fieldName = <<"emergency_contact">> ->
               <<"oncall", "@", "example", ".", "com">>
          [] fieldName = <<"uptime">> -> <<"99", ".", "9">>
          [] fieldName = <<"replicas">> -> <<"3">>
          [] fieldName = <<"password_policy">> -> <<"strict">>
          [] OTHER ->
               IF fieldName \notin DOMAIN schema.FieldValidations THEN <<"CHANGEME">>
               ELSE IF Len(validation.AllowedValues) > 0 THEN validation.AllowedValues[1]
               ELSE CASE validation.Type = "boolean" -> <<"true">>
                      [] validation.Type = "integer" ->
                           IF validation.Min > 0 THEN IntText(validation.Min) ELSE <<"1">>
                      [] validation.Type = "float" ->
                           IF validation.Min > 0
                           THEN IntText(validation.Min) \o <<".", "0">>
                           ELSE <<"1", ".", "0">>
                      [] validation.Type = "array" -> <<"[", "CHANGEME", "]">>
                      [] OTHER -> <<"CHANGEME">>

CommentFix(prefix, fields) == [Prefix |-> prefix, Fields |-> fields]

\* fix.Fields[field] = cf.getPlaceholderValue(field) for the fields of a
\* list, a later entry of the same name replacing an earlier one.
RECURSIVE placeholdersOf(_, _, _)
placeholdersOf(schema, fields, into) ==
    IF fields = <<>> THEN into
    ELSE placeholdersOf(schema, Tail(fields),
                        Put(into, Head(fields), getPlaceholderValue(schema, Head(fields))))

\* The nested part of generatePrefixFix (fixer.go 182-188).
RECURSIVE nestedPlaceholders(_, _, _, _)
nestedPlaceholders(schema, nestedRules, paths, into) ==
    IF paths = <<>> THEN into
    ELSE LET nestedPath == Head(paths)
             required == nestedRules[nestedPath].RequiredFields
             RECURSIVE Each(_, _)
             Each(fs, m) ==
                 IF fs = <<>> THEN m
                 ELSE Each(Tail(fs),
                           Put(m, nestedPath \o <<".">> \o Head(fs),
                               getPlaceholderValue(schema, Head(fs))))
         IN  nestedPlaceholders(schema, nestedRules, Tail(paths), Each(required, into))

\* CommentFixer.generatePrefixFix (fixer.go 166-191): <<>> for nil.
generatePrefixFix(schema, prefix, rules, rev) ==
    IF prefix \notin DOMAIN rules.PrefixRules THEN <<>>
    ELSE LET prefixRule == rules.PrefixRules[prefix]
             root == placeholdersOf(schema, prefixRule.RequiredFields, EmptyMap)
         IN  <<CommentFix(prefix,
                          nestedPlaceholders(schema, prefixRule.NestedFields,
                              RangeOver(DOMAIN prefixRule.NestedFields, rev), root))>>

\* CommentFixer.generateFieldFix (fixer.go 194-205).
generateFieldFix(schema, prefix, fields, rules) ==
    <<CommentFix(prefix, placeholdersOf(schema, fields, EmptyMap))>>

\* The prefix a missing-prefix message names (fixer.go 115).
prefixOfMessage(message) == TrimSpace(TrimPrefix(message, MissingPrefixPhrase))

\* The prefix and the field a missing-field message names (fixer.go
\* 124-136): <<>> when the message has no colon or no quoted name.
fieldOfMessage(message) ==
    LET parts == SplitN2(message, ":")
        fieldMsg == TrimSpace(parts[2])
        start == Index(fieldMsg, <<"'">>)
        rest == SubSeq(fieldMsg, start + 1, Len(fieldMsg))
        end == Index(rest, <<"'">>)
    IN  IF Len(parts) # 2 THEN <<>>
        ELSE IF start = 0 \/ end = 0 THEN <<>>
        ELSE <<[prefix |-> TrimSpace(parts[1]), field |-> SubSeq(rest, 1, end - 1)]>>

\* The two maps generateFixes fills from the errors (fixer.go 109-138).
missingPrefixesOf(errors) ==
    {prefixOfMessage(errors[i].Message) :
        i \in {j \in 1..Len(errors) : ContainsText(errors[j].Message, MissingPrefixPhrase)}}

\* missingFieldsOf without the test for the words of a missing-field
\* message: every message with a colon and a quoted name counts.
RECURSIVE missingFieldsOfAny(_, _)
missingFieldsOfAny(errors, into) ==
    IF errors = <<>> THEN into
    ELSE LET message == Head(errors).Message
             named == fieldOfMessage(message)
             prefix == named[1].prefix
             sofar == IF prefix \in DOMAIN into THEN into[prefix] ELSE <<>>
         IN  IF ContainsText(message, MissingPrefixPhrase) \/ named = <<>>
             THEN missingFieldsOfAny(Tail(errors), into)
             ELSE missingFieldsOfAny(Tail(errors),
                                     Put(into, prefix, Append(sofar, named[1].field)))

RECURSIVE missingFieldsOf(_, _)
missingFieldsOf(errors, into) ==
    IF errors = <<>> THEN into
    ELSE LET message == Head(errors).Message
             named == fieldOfMessage(message)
             prefix == named[1].prefix
             sofar == IF prefix \in DOMAIN into THEN into[prefix] ELSE <<>>
         IN  IF ContainsText(message, MissingPrefixPhrase)
                 \/ ~ContainsText(message, MissingFieldPhrase)
                 \/ named = <<>>
             THEN missingFieldsOf(Tail(errors), into)
             ELSE missingFieldsOf(Tail(errors),
                                  Put(into, prefix, Append(sofar, named[1].field)))

\* CommentFixer.generateFixes (fixer.go 102-157).
generateFixes(schema, resource, errors, rev) ==
    LET rules == getApplicableRules(schema, resource.Type)
        missingPrefixes == missingPrefixesOf(errors)
        missingFields == missingFieldsOf(errors, EmptyMap)
        ForPrefix(prefix) == generatePrefixFix(schema, prefix, rules, rev)
        ForFields(prefix) == generateFieldFix(schema, prefix, missingFields[prefix], rules)
    IN  ConcatMap(ForPrefix, RangeOver(missingPrefixes, rev))
            \o ConcatMap(ForFields, RangeOver(DOMAIN missingFields, rev))

\* CommentFixer.getSchemaRuleForPrefix (fixer.go 351-360): <<>> for none.
getSchemaRuleForPrefix(schema, prefix) ==
    IF prefix \in DOMAIN schema.Global.PrefixRules
    THEN <<schema.Global.PrefixRules[prefix]>>
    ELSE <<>>

\* The split of the fields of a fix into root fields and, by the segment
\* before the first dot, nested fields (fixer.go 281-300 and 364-383).
rootFieldsOf(fix) ==
    LET keys == {f \in DOMAIN fix.Fields : ~Contains(f, ".")}
    IN  [f \in keys |-> fix.Fields[f]]

nestedFieldsOf(fix) ==
    LET dotted == {f \in DOMAIN fix.Fields : Contains(f, ".")}
        heads == {SplitN2(f, ".")[1] : f \in dotted}
        Under(h) == {f \in dotted : SplitN2(f, ".")[1] = h}
    IN  [h \in heads |->
            [rest \in {SplitN2(f, ".")[2] : f \in Under(h)} |->
                fix.Fields[h \o <<".">> \o rest]]]

\* fmt.Sprintf(" %s:%s", field, value) for each field of a list that the
\* map holds, the name written after the given path.
RECURSIVE writeFields(_, _, _)
writeFields(path, fields, fieldMap) ==
    IF fields = <<>> THEN <<>>
    ELSE (IF Head(fields) \in DOMAIN fieldMap
          THEN <<" ">> \o path \o Head(fields) \o <<":">> \o fieldMap[Head(fields)]
          ELSE <<>>)
             \o writeFields(path, Tail(fields), fieldMap)

\* CommentFixer.buildUnorderedCommentBlock (fixer.go 363-403).
buildUnorderedCommentBlock(fix, rev) ==
    LET rootFields == rootFieldsOf(fix)
        nestedFields == nestedFieldsOf(fix)
        commentLine == <<"#", " ">> \o fix.Prefix
                           \o writeFields(<<>>, RangeOver(DOMAIN rootFields, rev), rootFields)
        NestedLine(prefix) ==
            <<<<"#">> \o writeFields(prefix \o <<".">>,
                                    RangeOver(DOMAIN nestedFields[prefix], rev),
                                    nestedFields[prefix])>>
    IN  <<commentLine>> \o ConcatMap(NestedLine, RangeOver(DOMAIN nestedFields, rev))

\* The lines buildCommentBlock writes for one fix (fixer.go 272-345), given
\* what getSchemaRuleForPrefix found for its prefix.
buildFixLines(found, fix, rev) ==
    LET prefixRule == found[1]
        rootFields == rootFieldsOf(fix)
        nestedFields == nestedFieldsOf(fix)
        commentLine == <<"#", " ">> \o fix.Prefix
                           \o writeFields(<<>>, prefixRule.RequiredFields, rootFields)
                           \o writeFields(<<>>, prefixRule.OptionalFields, rootFields)
        NestedLine(nestedPath) ==
            IF nestedPath \in DOMAIN nestedFields /\ DOMAIN nestedFields[nestedPath] # {}
            THEN LET nestedRule == prefixRule.NestedFields[nestedPath]
                     nestedLine ==
                         <<"#">> \o writeFields(nestedPath \o <<".">>,
                                        nestedRule.RequiredFields, nestedFields[nestedPath])
                                 \o writeFields(nestedPath \o <<".">>,
                                        nestedRule.OptionalFields, nestedFields[nestedPath])
                 IN  IF Len(nestedLine) > 1 THEN <<nestedLine>> ELSE <<>>
            ELSE <<>>
    IN  IF found = <<>> THEN buildUnorderedCommentBlock(fix, rev)
        ELSE <<commentLine>>
                 \o ConcatMap(NestedLine, RangeOver(DOMAIN prefixRule.NestedFields, rev))

\* CommentFixer.buildCommentBlock (fixer.go 269-348).
buildCommentBlock(schema, fixes, rev) ==
    LET Of(fix) == buildFixLines(getSchemaRuleForPrefix(schema, fix.Prefix), fix, rev)
    IN  ConcatMap(Of, fixes)

\* CommentFixer.insertLines (fixer.go 406-422); position counts from 0.
insertLines(lines, position, newLines) ==
    LET low == IF position < 0 THEN 0 ELSE position
        at == IF low > Len(lines) THEN Len(lines) ELSE low
    IN  SubSeq(lines, 1, at) \o newLines \o SubSeq(lines, at + 1, Len(lines))

ManagedAt == <<"#", " ", "@">>
ManagedTerraform == <<"#", " ", "terraform", ":">>

\* CommentFixer.allPrefixesHaveComments (fixer.go 448-476).
allPrefixesHaveComments(resource, errors) ==
    /\ missingPrefixesOf(errors) = {}
    /\ \A i \in 1..Len(errors) :
           /\ ~ContainsText(errors[i].Message, MissingPrefixPhrase)
           /\ ~ContainsText(errors[i].Message, MissingFieldPhrase)

\* CommentFixer.hasValidComments (fixer.go 426-445): the first preceding
\* comment that looks managed and has a colon decides.
hasValidComments(resource, errors) ==
    LET Managed(comment) ==
            /\ HasPrefix(comment.Raw, ManagedAt) \/ HasPrefix(comment.Raw, ManagedTerraform)
            /\ Contains(comment.Raw, ":")
    IN  /\ SelectSeq(resource.PrecedingComments, Managed) # <<>>
        /\ allPrefixesHaveComments(resource, errors)

\* CommentFixer.findInsertionPoint (fixer.go 480-517), the loop from index
\* insertLine down; indexes count from 0 as in the code.
RECURSIVE scanUp(_, _)
scanUp(lines, insertLine) ==
    IF ~(insertLine > 0) THEN 0
    ELSE LET trimmed == TrimSpace(lines[insertLine + 1])
         IN  IF trimmed = <<>> THEN insertLine
             ELSE IF HasPrefix(trimmed, <<"#">>)
             THEN IF HasPrefix(trimmed, ManagedAt) \/ HasPrefix(trimmed, ManagedTerraform)
                  THEN scanUp(lines, insertLine - 1)
                  ELSE insertLine + 1
             ELSE insertLine + 1

findInsertionPoint(lines, resourceStartLine) ==
    IF resourceStartLine - 1 < 0 THEN 0 ELSE scanUp(lines, resourceStartLine - 1)

(***************************************************************************)
(* CommentFixer.FixFile (fixer.go 28-81).  The result carries, next to the *)
(* text and the count, what was inserted for which resource and where.     *)
(* The body of the loop is taken in the steps the code takes: look up the  *)
(* errors of the resource, generate the fixes, find the line, insert.      *)
(***************************************************************************)
insertBlock(k, fixes, insertLine, commentBlock, lines, done) ==
    [lines |-> insertLines(lines, insertLine, commentBlock),
     done |-> Append(done, [resource |-> k, fixes |-> fixes, before |-> lines,
                            insertLine |-> insertLine, commentBlock |-> commentBlock])]

applyFixes(schema, resource, k, fixes, rev, lines, done) ==
    IF Len(fixes) = 0 THEN [lines |-> lines, done |-> done]
    ELSE insertBlock(k, fixes, findInsertionPoint(lines, resource.StartLine),
                     buildCommentBlock(schema, fixes, rev), lines, done)

fixWithErrors(schema, resource, k, resourceErrors, rev, lines, done) ==
    IF hasValidComments(resource, resourceErrors) THEN [lines |-> lines, done |-> done]
    ELSE applyFixes(schema, resource, k,
                    generateFixes(schema, resource, resourceErrors, rev), rev, lines, done)

fixResource(schema, resource, k, errorsByResource, rev, lines, done) ==
    IF ResourceKey(resource.Type, resource.Name) \notin DOMAIN errorsByResource
    THEN [lines |-> lines, done |-> done]
    ELSE fixWithErrors(schema, resource, k,
                       errorsByResource[ResourceKey(resource.Type, resource.Name)],
                       rev, lines, done)

RECURSIVE fixFrom(_, _, _, _, _, _)
fixFrom(schema, resources, k, errorsByResource, rev, sofar) ==
    IF k > Len(resources) THEN sofar
    ELSE fixFrom(schema, resources, k + 1, errorsByResource, rev,
                 fixResource(schema, resources[k], k, errorsByResource, rev,
                             sofar.lines, sofar.done))

RECURSIVE SumFixes(_)
SumFixes(done) == IF done = <<>> THEN 0 ELSE Len(Head(done).fixes) + SumFixes(Tail(done))

FixResult(out) ==
    [content |-> Join(out.lines, "\n"), fixCount |-> SumFixes(out.done), done |-> out.done]

FixFile(schema, content, resources, errors, rev) ==
    FixResult(fixFrom(schema, resources, 1, groupErrorsByResource(errors), rev,
                      [lines |-> Split(content, "\n"), done |-> <<>>]))

(***************************************************************************)
(* CommentParser.ParseFile (parser.go 49-93) on the text of a file.  The   *)
(* HCL lexer and parser are taken line by line: a line that starts with #  *)
(* is one comment token that runs to the end of its line, any other line   *)
(* one token that is not a comment; a resource block is a line             *)
(*     resource TYPE NAME {                                                *)
(* up to the next line that is a closing brace, or such a line with the    *)
(* closing brace on it.  The quotes around the labels are not written.     *)
(***************************************************************************)
IsComment(line) == HasPrefix(TrimLeft(line), <<"#">>)
IsOpen(line) == HasPrefix(line, <<"resource">>) /\ HasSuffix(line, <<"{">>)
IsOneLine(line) == HasPrefix(line, <<"resource">>) /\ HasSuffix(line, <<"{", "}">>)
IsClose(line) == TrimSpace(line) = <<"}">>

LexConfig(lines) ==
    [i \in 1..Len(lines) |->
        IF IsComment(lines[i])
        THEN [Type |-> "comment", eol |-> TRUE, Line |-> i,
              Text |-> TrimLeft(lines[i]) \o (IF i < Len(lines) THEN <<"\n">> ELSE <<>>)]
        ELSE [Type |-> "other", eol |-> FALSE, Line |-> i, Text |-> lines[i]]]

\* The blocks of the syntax tree from line i on; open is the line of the
\* declaration whose closing brace has not been met, or 0.
RECURSIVE ParseConfig(_, _, _)
ParseConfig(lines, i, open) ==
    IF i > Len(lines) THEN [ok |-> open = 0, blocks |-> <<>>]
    ELSE LET line == lines[i]
             rest(o) == ParseConfig(lines, i + 1, o)
             Block(from) == [Type |-> lines[from][3], Name |-> lines[from][5],
                             StartLine |-> from, EndLine |-> i]
             With(b, r) == [ok |-> r.ok, blocks |-> <<b>> \o r.blocks]
         IN  IF IsComment(line) THEN rest(open)
             ELSE IF open = 0
             THEN IF IsOneLine(line) THEN With(Block(i), rest(0))
                  ELSE IF IsOpen(line) THEN rest(i)
                  ELSE IF IsClose(line) THEN [ok |-> FALSE, blocks |-> <<>>]
                  ELSE rest(0)
             ELSE IF IsClose(line) THEN With(Block(open), rest(0))
                  ELSE IF IsOpen(line) \/ IsOneLine(line) THEN [ok |-> FALSE, blocks |-> <<>>]
                  ELSE rest(open)

parsedFile(file, comments) ==
    LET Resource(block) == <<parseResource(block, comments)>>
    IN  [ok |-> file.ok,
         resources |-> IF file.ok THEN ConcatMap(Resource, file.blocks) ELSE <<>>]

parseLines(prefixes, lines) ==
    parsedFile(ParseConfig(lines, 1, 0), extractComments(prefixes, LexConfig(lines)))

ParseFile(prefixes, content) == parseLines(prefixes, Split(content, "\n"))

(***************************************************************************)
(* One call of parseValue on a value token.  extractKeyValuePairs hands it *)
(* the second group of ([\w\.]+):(\S+): not empty and free of spaces.      *)
(***************************************************************************)
ValueChunks == {"true", "false", "team", "a", "3", "9", "99", ".", "-", "[", "]", ","}

ValueTokens ==
    {s \in SeqsUpTo(ValueChunks, MaxTokLen) : s # <<>> /\ Canonical(s)}

Idle == [pc |-> "idle"]

ValueCall(s) == [pc |-> "call", value |-> s, result |-> StrV(<<>>)]

InitValue ==
    /\ cv \in {ValueCall(s) : s \in ValueTokens}
    /\ mc = Idle /\ lx = Idle /\ ra = Idle /\ vr = Idle /\ fx = Idle
    /\ pf = Idle /\ vm = Idle /\ ap = Idle

ParseValueCall ==
    /\ cv.pc = "call"
    /\ cv' = [cv EXCEPT !.pc = "done", !.result = parseValue(cv.value)]
    /\ UNCHANGED <<mc, lx, ra, vr, fx, pf, vm, ap>>

NextValue == ParseValueCall

SpecValue == InitValue /\ [][NextValue]_vars

\* The coercion as the specification words it: a rule applies to the token as
\* a whole (the token "parses as" an integer, a float), first rule first.
WholeInt(value) ==
    \/ Len(value) = 1 /\ IsDigits(value[1])
    \/ Len(value) = 2 /\ IsSign(value[1]) /\ IsDigits(value[2])

WholeFloat(value) ==
    LET body == IF value # <<>> /\ IsSign(Head(value)) THEN Tail(value) ELSE value
    IN  \/ Len(body) = 1 /\ IsDigits(body[1])
        \/ Len(body) = 2 /\ IsDigits(body[1]) /\ body[2] = "."
        \/ Len(body) = 2 /\ body[1] = "." /\ IsDigits(body[2])
        \/ Len(body) = 3 /\ IsDigits(body[1]) /\ body[2] = "." /\ IsDigits(body[3])

StatedCoercion(value) ==
    IF value = <<"true">> THEN "bool"
    ELSE IF value = <<"false">> THEN "bool"
    ELSE IF WholeInt(value) THEN "int"
    ELSE IF WholeFloat(value) THEN "float"
    ELSE IF HasPrefix(value, <<"[">>) /\ HasSuffix(value, <<"]">>) THEN "list"
    ELSE "str"

\* C8: every value token is coerced by the first rule that applies to it, in
\* the order boolean, integer, float, list, string; owner:team-a is the
\* string "team-a", enabled:true the boolean true, replicas:3 the integer 3
\* and uptime:99.9 the float 99.9.
C8_ValueCoercion ==
    cv.pc = "done" =>
        /\ cv.result.t = StatedCoercion(cv.value)
        /\ cv.value = <<"team", "-", "a">> => cv.result = StrV(<<"team", "-", "a">>)
        /\ cv.value = <<"true">> => cv.result = BoolV(TRUE)
        /\ cv.value = <<"3">> => cv.result = IntV(3)
        /\ cv.value = <<"99", ".", "9">> => cv.result = FloatV(FALSE, 99, "9")

(***************************************************************************)
(* One call of parseMultiLineComment on the lines of a comment block, for  *)
(* a parser configured with a list of prefixes.                            *)
(***************************************************************************)
PAt == <<"@">>

ConfiguredPrefixes == {<<PMeta>>, <<PAt, PMeta>>, <<PMeta, PAt>>}

BlockChunks == {" ", "@", "metadata"}

BlockLines ==
    {<<"#">> \o b : b \in {x \in SeqsUpTo(BlockChunks, MaxBodyLen) : Canonical(x)}}
        \cup {<<"/", "/", "@", "metadata">>, <<"/", "/", "#", "@", "metadata">>}

Blocks == {b \in SeqsUpTo(BlockLines, MaxBlockLines) : b # <<>>}

InitBlock ==
    /\ mc \in {[pc |-> "call", prefixes |-> ps, lines |-> b, result |-> NoComment] :
                  ps \in ConfiguredPrefixes, b \in Blocks}
    /\ cv = Idle /\ lx = Idle /\ ra = Idle /\ vr = Idle /\ fx = Idle
    /\ pf = Idle /\ vm = Idle /\ ap = Idle

ParseBlockCall ==
    /\ mc.pc = "call"
    /\ mc' = [mc EXCEPT !.pc = "done",
                        !.result = parseMultiLineComment(mc.prefixes, mc.lines,
                                                         1, Len(mc.lines))]
    /\ UNCHANGED <<cv, lx, ra, vr, fx, pf, vm, ap>>

NextBlock == ParseBlockCall

SpecBlock == InitBlock /\ [][NextBlock]_vars

\* A line of the block as the parser reads it: without its comment marker
\* and without the white space around it.
Stripped(line) == TrimSpace(TrimPrefix(TrimPrefix(line, <<"/", "/">>), <<"#">>))

StartsWithConfigured(prefixes, text) ==
    \E i \in 1..Len(prefixes) : prefixes[i] # <<>> /\ HasPrefix(text, prefixes[i])

FirstMatching(prefixes, text) ==
    prefixes[CHOOSE i \in 1..Len(prefixes) :
                 /\ HasPrefix(text, prefixes[i])
                 /\ \A j \in 1..(i - 1) : ~HasPrefix(text, prefixes[j])]

NonEmptyLines(lines) == {i \in 1..Len(lines) : Stripped(lines[i]) # <<>>}

FirstNonEmpty(lines) ==
    Stripped(lines[CHOOSE i \in NonEmptyLines(lines) :
                       \A j \in NonEmptyLines(lines) : i <= j])

\* C9 as stated: a block whose first comment line, stripped of its marker and
\* trimmed, starts with no configured prefix yields no StructuredComment, and
\* a StructuredComment that is produced has a non-empty prefix: the first
\* configured prefix, in configured order, that the first line starts with.
C9_FirstLineDecides ==
    mc.pc = "done" =>
        /\ ~StartsWithConfigured(mc.prefixes, Stripped(mc.lines[1]))
               => ~mc.result.some
        /\ mc.result.some =>
               /\ mc.result.Prefix # <<>>
               /\ mc.result.Prefix = FirstMatching(mc.prefixes, Stripped(mc.lines[1]))

\* C9 as amended: the line that decides is the first line of the block that
\* is not empty once stripped and trimmed.  A block with no such line, or
\* whose first such line starts with no configured prefix, yields no
\* StructuredComment; one that is produced has a non-empty prefix, the first
\* configured prefix, in configured order, that this line starts with.
C9_NoFalsePositives ==
    mc.pc = "done" =>
        /\ (NonEmptyLines(mc.lines) = {}
            \/ ~StartsWithConfigured(mc.prefixes, FirstNonEmpty(mc.lines)))
               => ~mc.result.some
        /\ mc.result.some =>
               /\ mc.result.Prefix # <<>>
               /\ mc.result.Prefix = FirstMatching(mc.prefixes, FirstNonEmpty(mc.lines))

\* C9's case: a block with text in it whose deciding line starts with no
\* configured prefix has been parsed, and nothing came of it.
C9_Witness ==
    /\ mc.pc = "done"
    /\ NonEmptyLines(mc.lines) # {}
    /\ ~StartsWithConfigured(mc.prefixes, FirstNonEmpty(mc.lines))
    /\ ~mc.result.some

(***************************************************************************)
(* One call of extractComments on the tokens of a file.  A line comment    *)
(* ends its line, so the token after it starts on a later line; a block    *)
(* comment or another token may be followed by a token on its own line.    *)
(***************************************************************************)
TokenKinds ==
    {[Type |-> "other", Text |-> <<"x">>, eol |-> FALSE],
     [Type |-> "comment", Text |-> <<"#", " ", "@", "metadata">>, eol |-> TRUE],
     [Type |-> "comment", Text |-> <<"#", " ", "note">>, eol |-> TRUE],
     [Type |-> "comment", Text |-> <<"/", "*", " ", "note", " ", "*", "/">>, eol |-> FALSE]}

Tokens ==
    {[Type |-> k.Type, Text |-> k.Text, eol |-> k.eol, Line |-> n] :
        k \in TokenKinds, n \in 1..MaxTokLine}

TokenStreams ==
    {s \in SeqsUpTo(Tokens, MaxTokens) :
        \A i \in 1..(Len(s) - 1) :
            /\ s[i].Line <= s[i + 1].Line
            /\ s[i].eol => s[i].Line < s[i + 1].Line}

InitLex ==
    /\ lx \in {[pc |-> "call", tokens |-> s, blocks |-> <<>>, comments |-> <<>>] :
                  s \in TokenStreams}
    /\ cv = Idle /\ mc = Idle /\ ra = Idle /\ vr = Idle /\ fx = Idle
    /\ pf = Idle /\ vm = Idle /\ ap = Idle

ExtractCommentsCall ==
    /\ lx.pc = "call"
    /\ lx' = [lx EXCEPT !.pc = "done",
                        !.blocks = commentBlocks(lx.tokens),
                        !.comments = extractComments(AppPrefixes, lx.tokens)]
    /\ UNCHANGED <<cv, mc, ra, vr, fx, pf, vm, ap>>

NextLex == ExtractCommentsCall

SpecLex == InitLex /\ [][NextLex]_vars

CommentTokens(tokens) == {i \in 1..Len(tokens) : tokens[i].Type = "comment"}

InBlock(b, i) == \E k \in 1..Len(b.toks) : b.toks[k] = i

SameBlock(blocks, i, j) ==
    \E n \in 1..Len(blocks) : InBlock(blocks[n], i) /\ InBlock(blocks[n], j)

NextCommentAfter(tokens, i, j) ==
    /\ i < j
    /\ {i, j} \subseteq CommentTokens(tokens)
    /\ \A m \in CommentTokens(tokens) : ~(i < m /\ m < j)

\* C10: extractComments partitions the comment tokens into blocks.  Two
\* comment tokens that follow each other are in one block iff the second is
\* the very next token and starts on the line after the first; a block has
\* the lines of its first and of its last comment as Line and EndLine, and
\* so has the StructuredComment made of it.
C10_BlockGrouping ==
    lx.pc = "done" =>
        /\ \A i \in 1..Len(lx.tokens) :
               Cardinality({n \in 1..Len(lx.blocks) : InBlock(lx.blocks[n], i)})
                   = IF i \in CommentTokens(lx.tokens) THEN 1 ELSE 0
        /\ \A i, j \in 1..Len(lx.tokens) :
               NextCommentAfter(lx.tokens, i, j) =>
                   (SameBlock(lx.blocks, i, j)
                        <=> (j = i + 1 /\ lx.tokens[j].Line = lx.tokens[i].Line + 1))
        /\ \A n \in 1..Len(lx.blocks) :
               LET b == lx.blocks[n] IN
               /\ b.toks # <<>>
               /\ b.Line = lx.tokens[b.toks[1]].Line
               /\ b.EndLine = lx.tokens[b.toks[Len(b.toks)]].Line
        /\ \A c \in 1..Len(lx.comments) :
               \E n \in 1..Len(lx.blocks) :
                   /\ lx.blocks[n].Line = lx.comments[c].Line
                   /\ lx.blocks[n].EndLine = lx.comments[c].EndLine

\* C10's case: a stream has been grouped in which one block holds two
\* comments on neighbouring lines and a comment that is the very next token
\* of another, but not on the line after it, starts a block of its own.
C10_Witness ==
    /\ lx.pc = "done"
    /\ \E n \in 1..Len(lx.blocks) : Len(lx.blocks[n].toks) >= 2
    /\ \E i \in 1..(Len(lx.tokens) - 1) :
           /\ NextCommentAfter(lx.tokens, i, i + 1)
           /\ lx.tokens[i + 1].Line # lx.tokens[i].Line + 1
           /\ ~SameBlock(lx.blocks, i, i + 1)

(***************************************************************************)
(* One call of parseResource: a resource block from line StartLine to line *)
(* EndLine and the structured comments of its file, in file order.  No     *)
(* comment block runs across the line of the declaration.                  *)
(***************************************************************************)
CommentAt(n, e) ==
    [some |-> TRUE, Prefix |-> PMeta, Fields |-> EmptyMap, Raw |-> PMeta,
     Line |-> n, EndLine |-> e]

FileComments ==
    {s \in SeqsUpTo({CommentAt(n, e) : n \in 1..MaxLine, e \in 1..MaxLine}, MaxComments) :
        /\ \A i \in 1..Len(s) : s[i].Line <= s[i].EndLine
        /\ \A i \in 1..(Len(s) - 1) : s[i].EndLine < s[i + 1].Line}

ResourceBlocks ==
    {[Type |-> "aws_vpc", Name |-> "main", StartLine |-> st, EndLine |-> e] :
        st \in 1..MaxLine, e \in 1..MaxLine}

InitAssoc ==
    /\ ra \in {[pc |-> "call", block |-> b, comments |-> cs, resource |-> Idle] :
                  b \in {x \in ResourceBlocks : x.StartLine <= x.EndLine},
                  cs \in FileComments}
    /\ \A i \in 1..Len(ra.comments) :
           ~(ra.comments[i].Line < ra.block.StartLine
                 /\ ra.block.StartLine <= ra.comments[i].EndLine)
    /\ cv = Idle /\ mc = Idle /\ lx = Idle /\ vr = Idle /\ fx = Idle
    /\ pf = Idle /\ vm = Idle /\ ap = Idle

ParseResourceCall ==
    /\ ra.pc = "call"
    /\ ra' = [ra EXCEPT !.pc = "done", !.resource = parseResource(ra.block, ra.comments)]
    /\ UNCHANGED <<cv, mc, lx, vr, fx, pf, vm, ap>>

NextAssoc == ParseResourceCall

SpecAssoc == InitAssoc /\ [][NextAssoc]_vars

InSeq(x, s) == \E i \in 1..Len(s) : s[i] = x

\* C7: a comment block whose first line is N is among the PrecedingComments
\* of a resource from line S to line E iff 0 < S - N <= 5, and among its
\* InlineComments iff S <= N <= E; nothing else is attached to the resource.
C7_Association ==
    ra.pc = "done" =>
        LET S == ra.block.StartLine
            E == ra.block.EndLine
            r == ra.resource
        IN  /\ \A i \in 1..Len(ra.comments) :
                   LET c == ra.comments[i]
                       N == c.Line
                   IN  /\ InSeq(c, r.PrecedingComments) <=> (0 < S - N /\ S - N <= 5)
                       /\ InSeq(c, r.InlineComments) <=> (S <= N /\ N <= E)
            /\ \A k \in 1..Len(r.PrecedingComments) :
                   InSeq(r.PrecedingComments[k], ra.comments)
            /\ \A k \in 1..Len(r.InlineComments) :
                   InSeq(r.InlineComments[k], ra.comments)
            /\ Len(r.PrecedingComments) + Len(r.InlineComments) <= Len(ra.comments)

\* C7's case: of two comments above a resource the one five lines up is
\* attached as preceding and the one six lines up is not attached.
C7_Witness ==
    /\ ra.pc = "done"
    /\ \E i, j \in 1..Len(ra.comments) :
           /\ ra.block.StartLine - ra.comments[i].Line = 6
           /\ ra.block.StartLine - ra.comments[j].Line = 5
           /\ ra.resource.PrecedingComments = <<ra.comments[j]>>
           /\ ra.resource.InlineComments = <<>>


(***************************************************************************)
(* Schemas.  A prefix rule lists its required and optional fields and its  *)
(* nested rules by path; a field validation is keyed by the field's name.  *)
(***************************************************************************)
FOwner == <<"owner">>
FTeam == <<"team">>
FContact == <<"contact">>
FEmail == <<"email">>
FContactEmail == <<"contact", ".", "email">>
FPrimaryEmail == <<"primary", ".", "email">>
FContactPrimary == <<"contact", ".", "primary">>
FTags == <<"tags">>

NestedRule(required) == [RequiredFields |-> required, OptionalFields |-> <<>>]

PrefixRule(required, nested) ==
    [RequiredFields |-> required, OptionalFields |-> <<>>, NestedFields |-> nested]

Rules(requiredPrefixes, prefixRules) ==
    [RequiredPrefixes |-> requiredPrefixes, PrefixRules |-> prefixRules]

OneOf(allowed) ==
    [Type |-> "string", AllowedValues |-> allowed, Pattern |-> <<>>, Matches |-> {},
     MinLength |-> 0, Min |-> 0, Max |-> 0, MinItems |-> 0]

\* A field validation that declares allowed_values and nothing else: its
\* type is the empty string.
AllowedOnly(allowed) == [OneOf(allowed) EXCEPT !.Type = ""]

Schema(global, resourceTypes, fieldValidations) ==
    [Global |-> global, ResourceTypes |-> resourceTypes,
     FieldValidations |-> fieldValidations]

(***************************************************************************)
(* One call of ValidateResources on one resource.  The resource is what    *)
(* parseResource makes of a block and of the comments of its file, each    *)
(* comment what parseMultiLineComment makes of a comment line: preceding   *)
(* comments on every other line above the declaration, an inline comment   *)
(* on the line below it.                                                   *)
(***************************************************************************)
ValidateSchemas ==
    {Schema(Rules(<<PMeta>>, PMeta :> PrefixRule(<<FOwner>>, EmptyMap)),
            EmptyMap, FTeam :> AllowedOnly(<<<<"a">>>>)),
     Schema(Rules(<<PMeta, PDocs>>,
                  (PMeta :> PrefixRule(<<FOwner, FContactEmail>>, EmptyMap))
                      @@ (PDocs :> PrefixRule(<<>>, EmptyMap))),
            EmptyMap, (FTeam :> OneOf(<<<<"a">>>>)) @@ (FEmail :> OneOf(<<<<"b">>>>))),
     Schema(Rules(<<PMeta>>,
                  PMeta :> PrefixRule(<<FOwner>>, FContact :> NestedRule(<<FEmail>>))),
            "aws_vpc" :> Rules(<<PDocs>>, PDocs :> PrefixRule(<<FTeam>>, EmptyMap)),
            EmptyMap),
     Schema(Rules(<<PMeta>>,
                  PMeta :> PrefixRule(<<FOwner>>,
                               (FContact :> NestedRule(<<FEmail, FPrimaryEmail>>))
                                   @@ (FContactPrimary :> NestedRule(<<FEmail>>))
                                   @@ (FTags :> NestedRule(<<>>)))),
            EmptyMap, EmptyMap)}

CommentLines ==
    {<<"#", " ", "@", "metadata", " ", "owner", ":", "a">>,
     <<"#", " ", "@", "metadata", " ", "team", ":", "x">>,
     <<"#", " ", "@", "metadata", " ", "owner", ":", "a", " ",
       "contact", ".", "email", ":", "a">>,
     <<"#", " ", "@", "metadata", " ", "owner", ":", "a", " ", "contact", ":", "a">>,
     <<"#", " ", "@", "metadata", " ", "contact", ".", "slack", ":", "a">>,
     <<"#", " ", "@", "metadata", " ", "contact", ".", "email", ":", "a", " ",
       "contact", ".", "primary", ".", "email", ":", "a">>,
     <<"#", " ", "@", "metadata", " ", "contact", ".", "primary", ".", "x", ":", "a">>,
     <<"#", " ", "@", "metadata", " ", "contact", ".", "primary", ":", "a">>,
     <<"#", " ", "@", "docs", " ", "team", ":", "a">>,
     <<"#", " ", "@", "docs">>}

ValidateStart == 2 * MaxPreceding

CommentOn(text, line) == parseMultiLineComment(AppPrefixes, <<text>>, line, line)

\* The comments of a file, in file order: slot k is line 2k - 1, the last
\* slot the line below the declaration; a slot is a comment line or <<>>.
SlotComments(slots) ==
    LET At(k) == IF slots[k] = <<>> THEN <<>> ELSE <<CommentOn(slots[k], 2 * k - 1)>>
        RECURSIVE From(_)
        From(k) == IF k > Len(slots) THEN <<>> ELSE At(k) \o From(k + 1)
    IN  From(1)

ValidateResourcesIn ==
    {parseResource([Type |-> t, Name |-> "main",
                    StartLine |-> ValidateStart, EndLine |-> ValidateStart + 2],
                   SlotComments(slots)) :
        t \in {"aws_vpc", "aws_s3_bucket"},
        slots \in [1..(MaxPreceding + 1) -> CommentLines \cup {<<>>}]}

InitValidate ==
    /\ vr \in {[pc |-> "call", schema |-> sc, resource |-> r, rev |-> FALSE,
                result |-> Idle] :
                  sc \in ValidateSchemas, r \in ValidateResourcesIn}
    /\ cv = Idle /\ mc = Idle /\ lx = Idle /\ ra = Idle /\ fx = Idle
    /\ pf = Idle /\ vm = Idle /\ ap = Idle

ValidateResourcesCall ==
    /\ vr.pc = "call"
    /\ \E rev \in BOOLEAN :
           vr' = [vr EXCEPT !.pc = "done", !.rev = rev,
                            !.result = ValidateResources(vr.schema, <<vr.resource>>, rev)]
    /\ UNCHANGED <<cv, mc, lx, ra, fx, pf, vm, ap>>

NextValidate == ValidateResourcesCall

SpecValidate == InitValidate /\ [][NextValidate]_vars

AllComments(r) == r.PrecedingComments \o r.InlineComments

PrefixSet == {AppPrefixes[i] : i \in 1..Len(AppPrefixes)}

Elements(s) == {s[i] : i \in 1..Len(s)}

\* The rule set the schema gives a resource type: the entry of the type if
\* there is one, the global rules otherwise.
ResolvedRules(schema, type) ==
    IF type \in DOMAIN schema.ResourceTypes
    THEN [RequiredPrefixes |-> schema.ResourceTypes[type].RequiredPrefixes,
          PrefixRules |-> schema.ResourceTypes[type].PrefixRules]
    ELSE [RequiredPrefixes |-> schema.Global.RequiredPrefixes,
          PrefixRules |-> schema.Global.PrefixRules]

ErrorsWith(errors, message) ==
    LET Is(e) == e.Message = message IN SelectSeq(errors, Is)

ErrorsAt(errors, message, line) ==
    LET Is(e) == e.Message = message /\ e.Line = line IN SelectSeq(errors, Is)

PrefixAbsent(r, p) == \A i \in 1..Len(AllComments(r)) : AllComments(r)[i].Prefix # p

(***************************************************************************)
(* C4: a required prefix of the resolved rule set that no preceding and no *)
(* inline comment of the resource carries gets exactly one missing-prefix  *)
(* error, at the line of the declaration; a prefix that is not required or *)
(* that a preceding or an inline comment carries gets none; and an absent  *)
(* required prefix gets no error about its fields.                         *)
(***************************************************************************)
C4_MissingPrefix ==
    vr.pc = "done" =>
        LET r == vr.resource
            errors == vr.result.Errors
            required == Elements(ResolvedRules(vr.schema, r.Type).RequiredPrefixes)
        IN  \A p \in PrefixSet :
                LET mine == ErrorsWith(errors, MissingPrefixMessage(p))
                IN  /\ Len(mine) = (IF p \in required /\ PrefixAbsent(r, p) THEN 1 ELSE 0)
                    /\ \A i \in 1..Len(mine) : mine[i].Line = r.StartLine
                    /\ PrefixAbsent(r, p) =>
                           \A i \in 1..Len(errors) :
                               ~HasPrefix(errors[i].Message, p \o <<":">>)

\* Two prefixes are required; one is absent and reported, the other is
\* carried by the inline comment alone and not reported.
C4_Witness ==
    /\ vr.pc = "done"
    /\ Len(ResolvedRules(vr.schema, vr.resource.Type).RequiredPrefixes) = 2
    /\ PrefixAbsent(vr.resource, PDocs)
    /\ Len(ErrorsWith(vr.result.Errors, MissingPrefixMessage(PDocs))) = 1
    /\ vr.resource.PrecedingComments = <<>>
    /\ Len(vr.resource.InlineComments) = 1
    /\ vr.resource.InlineComments[1].Prefix = PMeta
    /\ ErrorsWith(vr.result.Errors, MissingPrefixMessage(PMeta)) = <<>>

\* A field path of at most two segments among the fields of a comment.
Found(fields, path) ==
    LET parts == Split(path, ".")
    IN  IF Len(parts) = 1 THEN parts[1] \in DOMAIN fields
        ELSE /\ Len(parts) = 2
             /\ parts[1] \in DOMAIN fields
             /\ fields[parts[1]].t = "map"
             /\ parts[2] \in DOMAIN fields[parts[1]].v

Blank == <<>>
UserComment == <<"#", " ", "note">>
CodeLine == <<"locals", " ", "{", "}">>
MetaOwner == <<"#", " ", "@", "metadata", " ", "owner", ":", "a">>
MetaOwnerTeam == <<"#", " ", "@", "metadata", " ", "owner", ":", "a", " ", "team", ":", "x">>
MetaTeam == <<"#", " ", "@", "metadata", " ", "team", ":", "a">>
DocsTeam == <<"#", " ", "@", "docs", " ", "team", ":", "a">>
AttributeLine == <<" ", " ", "cidr_block">>
CloseLine == <<"}">>
OpenLine(type, name) == <<"resource", " ", type, " ", name, " ", "{">>
OneLine(type, name) == <<"resource", " ", type, " ", name, " ", "{", "}">>

Preambles ==
    {<<>>, <<Blank>>, <<UserComment>>, <<CodeLine>>, <<MetaOwner>>, <<MetaTeam>>,
     <<MetaOwnerTeam>>, <<MetaOwner, DocsTeam>>, <<MetaOwner, Blank, DocsTeam>>}

ResourceNames == <<"a", "b", "c">>

\* The first resource of a file is of either type, on one line or on
\* several, under any of the preambles; a later one is an aws_vpc on
\* several lines under one of three.
LaterPreambles == {<<>>, <<Blank>>, <<MetaOwner>>}

OnSeveralLines(type, name) == <<OpenLine(type, name), AttributeLine, CloseLine>>

Segments(k) ==
    IF k = 1
    THEN {pre \o body : pre \in Preambles,
                        body \in UNION {{<<OneLine(t, ResourceNames[k])>>,
                                         OnSeveralLines(t, ResourceNames[k])} :
                                            t \in {"aws_vpc", "aws_s3_bucket"}}}
    ELSE {pre \o OnSeveralLines("aws_vpc", ResourceNames[k]) : pre \in LaterPreambles}

RECURSIVE FilesOf(_)
FilesOf(n) ==
    IF n = 0 THEN {<<>>}
    ELSE {front \o seg : front \in FilesOf(n - 1), seg \in Segments(n)}

\* A file that does not parse: a declaration without its closing brace.
BrokenFile == <<OpenLine("aws_vpc", "a"), AttributeLine>>

FileTexts ==
    {Join(lines, "\n") : lines \in UNION {FilesOf(n) : n \in 1..MaxRes} \cup {BrokenFile}}

FixSchemas ==
    {Schema(Rules(<<PMeta>>, PMeta :> PrefixRule(<<FOwner>>, EmptyMap)),
            EmptyMap, FTeam :> OneOf(<<<<"a">>>>)),
     Schema(Rules(<<PMeta, PDocs>>,
                  (PMeta :> PrefixRule(<<FOwner>>, EmptyMap))
                      @@ (PDocs :> PrefixRule(<<FTeam>>, EmptyMap))),
            EmptyMap, FTeam :> OneOf(<<<<"a">>>>)),
     Schema(Rules(<<PMeta>>, PMeta :> PrefixRule(<<FOwner>>, EmptyMap)),
            "aws_vpc" :> Rules(<<PMeta>>, PMeta :> PrefixRule(<<FOwner, FTeam>>, EmptyMap)),
            EmptyMap),
     Schema(Rules(<<PMeta>>,
                  PMeta :> PrefixRule(<<FOwner>>,
                               (FContact :> NestedRule(<<FEmail>>))
                                   @@ (FContactPrimary :> NestedRule(<<FEmail>>)))),
            EmptyMap, EmptyMap)}

NoFile == [exists |-> FALSE]
NoRun == [outcome |-> "none"]

Init ==
    /\ fx \in {[schema |-> sc, file |-> text, bak |-> NoFile, runs |-> 0, last |-> NoRun] :
                  sc \in FixSchemas, text \in FileTexts}
    /\ cv = Idle /\ mc = Idle /\ lx = Idle /\ ra = Idle /\ vr = Idle
    /\ pf = Idle /\ vm = Idle /\ ap = Idle

\* fixSingleFile (fix.go 67-137), the maps of the run ranged over in the
\* order rev picks; taken in the steps of the code: parse, validate, back
\* up and fix, write, parse and validate again.
revalidated(file, resources, result, fixed, reparsed, newResult) ==
    [file |-> fixed.content,
     bak |-> [exists |-> TRUE, text |-> file],
     last |-> [outcome |-> "returned", fixed |-> TRUE, fixCount |-> fixed.fixCount,
               before |-> file, resources |-> resources, result |-> result,
               done |-> fixed.done, newResources |-> reparsed.resources,
               newResult |-> newResult]]

reparse(schema, file, resources, result, rev, fixed, reparsed) ==
    revalidated(file, resources, result, fixed, reparsed,
                ValidateResources(schema, reparsed.resources, rev))

written(schema, file, resources, result, rev, fixed) ==
    reparse(schema, file, resources, result, rev, fixed,
            ParseFile(AppPrefixes, fixed.content))

validated(schema, file, bak, rev, resources, result) ==
    IF result.Passed
    THEN [file |-> file, bak |-> bak,
          last |-> [outcome |-> "returned", fixed |-> FALSE, fixCount |-> 0,
                    before |-> file, resources |-> resources, result |-> result,
                    done |-> <<>>, newResources |-> resources, newResult |-> result]]
    ELSE written(schema, file, resources, result, rev,
                 FixFile(schema, file, resources, result.Errors, rev))

parsed(schema, file, bak, rev, file1) ==
    IF ~file1.ok
    THEN [file |-> file, bak |-> bak, last |-> [outcome |-> "error", before |-> file]]
    ELSE validated(schema, file, bak, rev, file1.resources,
                   ValidateResources(schema, file1.resources, rev))

fixSingleFile(schema, file, bak, rev) ==
    parsed(schema, file, bak, rev, ParseFile(AppPrefixes, file))

applied(state, out) ==
    [state EXCEPT !.file = out.file, !.bak = out.bak,
                  !.runs = state.runs + 1, !.last = out.last]

FixSingleFile ==
    /\ fx.runs < MaxRuns
    /\ \E rev \in BOOLEAN :
           fx' = applied(fx, fixSingleFile(fx.schema, fx.file, fx.bak, rev))
    /\ UNCHANGED <<cv, mc, lx, ra, vr, pf, vm, ap>>

Next == FixSingleFile

Spec == Init /\ [][Next]_vars

ErrorsOf(errors, r) ==
    LET Mine(e) == e.ResourceType = r.Type /\ e.ResourceName = r.Name
    IN  SelectSeq(errors, Mine)

OnlyMissingPrefixes(errors) ==
    /\ errors # <<>>
    /\ \A i \in 1..Len(errors) : HasPrefix(errors[i].Message, MissingPrefixPhrase)

(***************************************************************************)
(* C1: after a run of the fix command that fixed the file, a resource      *)
(* whose only errors were missing required prefixes, one or several, has   *)
(* no error when the written file is parsed and validated again, wherever  *)
(* in the file it is declared.  Every required prefix of every rule set of *)
(* the schemas has a prefix rule.                                          *)
(***************************************************************************)
C1_FixThenRevalidate ==
    (fx.last.outcome = "returned" /\ fx.last.fixed) =>
        \A k \in 1..Len(fx.last.resources) :
            OnlyMissingPrefixes(ErrorsOf(fx.last.result.Errors, fx.last.resources[k]))
                => ErrorsOf(fx.last.newResult.Errors, fx.last.resources[k]) = <<>>

\* The text before an insertion has the declaration of the resource on the
\* line the parser reported.
DeclaredAt(lines, r) ==
    /\ r.StartLine <= Len(lines)
    /\ lines[r.StartLine] \in {OpenLine(r.Type, r.Name), OneLine(r.Type, r.Name)}

(***************************************************************************)
(* C2: the lines FixFile inserts for a resource declared on line S of the  *)
(* text are placed above that line: the insertion index, counted from 0,   *)
(* is at most S - 1, so that no inserted line ends up at or below the      *)
(* declaration.                                                            *)
(***************************************************************************)
C2_InsertedAbove ==
    fx.last.outcome = "returned" =>
        \A i \in 1..Len(fx.last.done) :
            LET d == fx.last.done[i]
                r == fx.last.resources[d.resource]
            IN  DeclaredAt(d.before, r) => d.insertLine <= r.StartLine - 1

\* Every comment of every resource of the text has what its rule set asks
\* of it, and every resource every required prefix.
CarriesAll(schema, text) ==
    LET resources == ParseFile(AppPrefixes, text).resources
    IN  \A k \in 1..Len(resources) :
            LET r == resources[k]
                rules == ResolvedRules(schema, r.Type)
                comments == AllComments(r)
            IN  /\ \A p \in Elements(rules.RequiredPrefixes) : ~PrefixAbsent(r, p)
                /\ \A i \in 1..Len(comments) :
                       comments[i].Prefix \in DOMAIN rules.PrefixRules =>
                           LET rule == rules.PrefixRules[comments[i].Prefix]
                           IN  /\ \A f \in Elements(rule.RequiredFields) :
                                      Found(comments[i].Fields, f)
                               /\ \A n \in DOMAIN rule.NestedFields :
                                      \A f \in Elements(rule.NestedFields[n].RequiredFields) :
                                          Found(comments[i].Fields, n \o <<".">> \o f)

(***************************************************************************)
(* C3: a run of the fix command on a file that parses and in which every   *)
(* resource carries all required prefixes and every comment all required   *)
(* fields of its rule set applies no fix and leaves the text as it is; and *)
(* the run that follows a run after which the file passed reports the file *)
(* as not fixed.                                                           *)
(***************************************************************************)
C3_Idempotence ==
    [][/\ (ParseFile(AppPrefixes, fx.file).ok /\ CarriesAll(fx.schema, fx.file)) =>
              (fx'.last.fixCount = 0 /\ fx'.file = fx.file)
       /\ (fx.last.outcome = "returned" /\ fx.last.newResult.Passed) =>
              (~fx'.last.fixed /\ fx'.last.fixCount = 0 /\ fx'.file = fx.file)]_vars

\* The second run on a file that the first run fixed: the file carries all
\* and is reported as not fixed.
C3_Witness ==
    /\ fx.runs = 2
    /\ fx.bak.exists
    /\ fx.last.outcome = "returned"
    /\ ~fx.last.fixed
    /\ CarriesAll(fx.schema, fx.last.before)
    /\ fx.file = fx.last.before

\* The schema with the resolved rule set of a type as its only rules.
ResolvedOnly(schema, type) ==
    Schema(ResolvedRules(schema, type), EmptyMap, schema.FieldValidations)

(***************************************************************************)
(* C6: for every resource, the validator and the fixer apply the resolved  *)
(* rule set of its type and nothing else: the errors of the resource and   *)
(* the comment block written for it are those that a schema gives whose    *)
(* only rules are that rule set, whatever else global or other entries     *)
(* define.                                                                 *)
(***************************************************************************)
C6_RuleResolution ==
    fx.last.outcome = "returned" =>
        /\ \A k \in 1..Len(fx.last.resources) :
               LET r == fx.last.resources[k]
               IN  \E rev \in BOOLEAN :
                       ErrorsOf(fx.last.result.Errors, r)
                           = ValidateResources(ResolvedOnly(fx.schema, r.Type), <<r>>, rev).Errors
        /\ \A i \in 1..Len(fx.last.done) :
               LET d == fx.last.done[i]
                   r == fx.last.resources[d.resource]
                   only == ResolvedOnly(fx.schema, r.Type)
                   errors == ErrorsOf(fx.last.result.Errors, r)
               IN  \E rev \in BOOLEAN :
                       d.commentBlock
                           = buildCommentBlock(only, generateFixes(only, r, errors, rev), rev)


(***************************************************************************)
(* SpecFields: one call of parseMultiLineComment on a block that starts    *)
(* with "# @metadata" and carries key:value tokens, on one line or split   *)
(* over two.                                                               *)
(***************************************************************************)
FSlack == <<"slack">>
FContactSlack == FContact \o <<".">> \o FSlack
FContactEmailX == FContactEmail \o <<".", "x">>
FContentA == ContentKey \o <<".", "a">>

PairKeys == {FContact, FContactEmail, FContactSlack, FContactEmailX, FContentA}
PairValues == {<<"a">>, <<"1">>}
Pairs == [key : PairKeys, value : PairValues]

PairText(pair) == <<" ">> \o pair.key \o <<":">> \o pair.value

RECURSIVE PairsText(_)
PairsText(pairs) ==
    IF pairs = <<>> THEN <<>> ELSE PairText(Head(pairs)) \o PairsText(Tail(pairs))

\* The block: the first `first` tokens follow the prefix on the first line,
\* the others are on a second comment line.
PairLines(pairs, first) ==
    <<<<"#", " ">> \o PMeta \o PairsText(SubSeq(pairs, 1, first))>>
        \o (IF first < Len(pairs)
            THEN <<<<"#">> \o PairsText(SubSeq(pairs, first + 1, Len(pairs)))>>
            ELSE <<>>)

InitFields ==
    /\ pf \in {[pc |-> "call", pairs |-> ps, first |-> n, result |-> NoComment] :
                  ps \in SeqsUpTo(Pairs, MaxPairs) \ {<<>>}, n \in 0..MaxPairs}
    /\ pf.first <= Len(pf.pairs)
    /\ cv = Idle /\ mc = Idle /\ lx = Idle /\ ra = Idle /\ vr = Idle
    /\ fx = Idle /\ vm = Idle /\ ap = Idle

ParseFieldsCall ==
    /\ pf.pc = "call"
    /\ pf' = [pf EXCEPT !.pc = "done",
                        !.result = parseMultiLineComment(<<PMeta>>,
                                       PairLines(pf.pairs, pf.first), 1,
                                       Len(PairLines(pf.pairs, pf.first)))]
    /\ UNCHANGED <<cv, mc, lx, ra, vr, fx, vm, ap>>

NextFields == ParseFieldsCall

SpecFields == InitFields /\ [][NextFields]_vars

\* fields[a][b]...[z] for the segments from i on: the value found there, or
\* nothing when a segment is absent or an intermediate value is not a map.
Nothing == [t |-> "none"]

RECURSIVE ValueAt(_, _, _)
ValueAt(fields, parts, i) ==
    IF parts[i] \notin DOMAIN fields THEN Nothing
    ELSE IF i = Len(parts) THEN fields[parts[i]]
    ELSE IF fields[parts[i]].t # "map" THEN Nothing
    ELSE ValueAt(fields[parts[i]].v, parts, i + 1)

PathOf(key) == Split(key, ".")

IsDotted(key) == Contains(key, ".")

\* Path p is a proper prefix of path q.
ProperPrefix(p, q) == Len(p) < Len(q) /\ SubSeq(q, 1, Len(p)) = p

\* No other token of the block has a key whose path is a proper prefix of
\* token i's path or extends it, and no later token has token i's key.
Undisturbed(pairs, i) ==
    /\ \A j \in 1..Len(pairs) :
          /\ ~ProperPrefix(PathOf(pairs[j].key), PathOf(pairs[i].key))
          /\ ~ProperPrefix(PathOf(pairs[i].key), PathOf(pairs[j].key))
    /\ \A j \in (i + 1)..Len(pairs) : pairs[j].key # pairs[i].key

FieldsBefore(pairs, i) == storePairs(SubSeq(pairs, 1, i - 1), EmptyMap)

\* The walk along parts is stopped at segment d: the segments before d lead
\* through maps to a value at segment d that is not a map, with segments left.
BlockedAt(fields, parts, d) ==
    /\ d < Len(parts)
    /\ ValueAt(fields, SubSeq(parts, 1, d), 1) # Nothing
    /\ ValueAt(fields, SubSeq(parts, 1, d), 1).t # "map"

\* The map that holds segment d of the path: the fields themselves for the
\* first segment, else the map at the segments before d.
HolderOf(fields, parts, d) ==
    IF d = 1 THEN fields ELSE ValueAt(fields, SubSeq(parts, 1, d - 1), 1).v

\* C21 (as stated): when the last token of the block has a dotted key of which
\* some intermediate segment, at any depth, holds a value that is not a map
\* when the token is stored, the block is parsed without error, the coerced
\* value is under the whole dotted key at the top level of the fields, and
\* the value that is not a map is as it was.
C21_FallbackAtTopLevel ==
    pf.pc = "done" =>
        LET n == Len(pf.pairs)
            key == pf.pairs[n].key
            parts == PathOf(key)
            before == FieldsBefore(pf.pairs, n)
        IN  \A d \in 1..Len(parts) :
                (IsDotted(key) /\ BlockedAt(before, parts, d)) =>
                    /\ pf.result.some
                    /\ key \in DOMAIN pf.result.Fields
                    /\ pf.result.Fields[key] = parseValue(pf.pairs[n].value)
                    /\ ValueAt(pf.result.Fields, SubSeq(parts, 1, d), 1)
                           = ValueAt(before, SubSeq(parts, 1, d), 1)

\* C21 (amended): when the last token of the block has a dotted key of which
\* some intermediate segment, at any depth, holds a value that is not a map
\* when the token is stored, the block is parsed without error, the coerced
\* value is under the whole dotted key in the map that holds that segment
\* (the top level of the fields when it is the first segment, the nested map
\* the walk has reached otherwise), nothing else in that map changes, and
\* the value that is not a map is as it was.
C21_FallbackWhereBlocked ==
    pf.pc = "done" =>
        LET n == Len(pf.pairs)
            key == pf.pairs[n].key
            parts == PathOf(key)
            before == FieldsBefore(pf.pairs, n)
        IN  \A d \in 1..Len(parts) :
                (IsDotted(key) /\ BlockedAt(before, parts, d)) =>
                    /\ pf.result.some
                    /\ HolderOf(pf.result.Fields, parts, d)
                           = IF d = 1
                             THEN Put(Put(before, key, parseValue(pf.pairs[n].value)),
                                      ContentKey, pf.result.Fields[ContentKey])
                             ELSE Put(HolderOf(before, parts, d), key,
                                      parseValue(pf.pairs[n].value))
                    /\ ValueAt(pf.result.Fields, SubSeq(parts, 1, d), 1)
                           = ValueAt(before, SubSeq(parts, 1, d), 1)

\* C21 witness: a block with contact.email:a and then contact.email.x:1 has
\* been parsed; fields["contact"] holds email as the text it was and the
\* number under the key "contact.email.x", and the top level has no such key.
C21_Witness ==
    /\ pf.pc = "done"
    /\ pf.pairs = <<[key |-> FContactEmail, value |-> <<"a">>],
                    [key |-> FContactEmailX, value |-> <<"1">>]>>
    /\ pf.result.Fields[FContact]
           = MapV(Put(Put(EmptyMap, FEmail, StrV(<<"a">>)), FContactEmailX, IntV(1)))
    /\ FContactEmailX \notin DOMAIN pf.result.Fields


(***************************************************************************)
(* Nested rules (validator.go 222-281), on SpecValidate.                   *)
(***************************************************************************)
\* A required field f of a nested rule as it is looked for under the map
\* that path P leads to: a flat f as a key, a dotted f as a path.
MissingUnder(map, f) ==
    IF IsDotted(f) THEN ValueAt(map, PathOf(f), 1) = Nothing
    ELSE f \notin DOMAIN map

\* The walk along P comes to a segment that is not a key of the map reached.
RECURSIVE SegmentAbsent(_, _, _)
SegmentAbsent(fields, parts, i) ==
    IF i > Len(parts) THEN FALSE
    ELSE IF parts[i] \notin DOMAIN fields THEN TRUE
    ELSE IF fields[parts[i]].t # "map" THEN FALSE
    ELSE SegmentAbsent(fields[parts[i]].v, parts, i + 1)

NestedFieldMessage(prefix, path, f) ==
    IF IsDotted(f) THEN MissingNestedFieldMessage(prefix, path \o <<".">> \o f)
    ELSE MissingFieldMessage(prefix, path \o <<".">> \o f)

\* How many required fields of the prefix rule itself are reported with
\* message m for a comment with these fields.
FlatCount(prefix, rule, fields, m) ==
    Cardinality({i \in 1..Len(rule.RequiredFields) :
                    /\ MissingFieldMessage(prefix, rule.RequiredFields[i]) = m
                    /\ ValueAt(fields, PathOf(rule.RequiredFields[i]), 1) = Nothing})

\* How many required fields of the nested rules are due message m: those
\* whose path leads to a nested map that lacks them.
NestedCount(prefix, rule, fields, m) ==
    Cardinality({pi \in UNION {{<<path, i>> :
                                   i \in 1..Len(rule.NestedFields[path].RequiredFields)} :
                               path \in DOMAIN rule.NestedFields} :
                    LET at == ValueAt(fields, PathOf(pi[1]), 1)
                        f == rule.NestedFields[pi[1]].RequiredFields[pi[2]]
                    IN  /\ NestedFieldMessage(prefix, pi[1], f) = m
                        /\ at.t = "map"
                        /\ MissingUnder(at.v, f)})

\* C12 (as stated): for every comment whose prefix has a rule and every
\* nested rule with path P of that rule: if the walk along P finds a segment
\* absent and the nested rule has required fields, there is exactly one
\* missing-structure error for P at the comment's line; if P is present in
\* the comment, every required field missing under P has its own error.
C12_NestedRules ==
    vr.pc = "done" =>
        LET r == vr.resource
            errors == vr.result.Errors
            rules == ResolvedRules(vr.schema, r.Type).PrefixRules
            comments == AllComments(r)
        IN  \A i \in 1..Len(comments) :
                comments[i].Prefix \in DOMAIN rules =>
                    LET c == comments[i]
                        rule == rules[c.Prefix]
                    IN  \A path \in DOMAIN rule.NestedFields :
                            LET nested == rule.NestedFields[path]
                                at == ValueAt(c.Fields, PathOf(path), 1)
                            IN  /\ (SegmentAbsent(c.Fields, PathOf(path), 1)
                                        /\ Len(nested.RequiredFields) > 0) =>
                                       Len(ErrorsAt(errors,
                                               MissingStructureMessage(c.Prefix, path),
                                               c.Line)) = 1
                                /\ at # Nothing =>
                                       \A f \in Elements(nested.RequiredFields) :
                                           (at.t = "map" => MissingUnder(at.v, f)) =>
                                               Len(ErrorsAt(errors,
                                                       NestedFieldMessage(c.Prefix, path, f),
                                                       c.Line)) >= 1

\* C12 (amended): for every comment whose prefix has a rule and every
\* nested rule with path P of that rule: there is exactly one
\* missing-structure error for P at the comment's line if the walk along P
\* finds a segment absent and the nested rule has required fields, and none
\* otherwise; and if P leads to a nested map, every required field of the
\* nested rule has as many errors with its message at the comment's line as
\* there are required fields due that message: one for each that is missing
\* under P, none if it is there.
C12_NestedRulesOfMaps ==
    vr.pc = "done" =>
        LET r == vr.resource
            errors == vr.result.Errors
            rules == ResolvedRules(vr.schema, r.Type).PrefixRules
            comments == AllComments(r)
        IN  \A i \in 1..Len(comments) :
                comments[i].Prefix \in DOMAIN rules =>
                    LET c == comments[i]
                        rule == rules[c.Prefix]
                    IN  \A path \in DOMAIN rule.NestedFields :
                            LET nested == rule.NestedFields[path]
                                at == ValueAt(c.Fields, PathOf(path), 1)
                            IN  /\ Len(ErrorsAt(errors,
                                           MissingStructureMessage(c.Prefix, path), c.Line))
                                       = (IF SegmentAbsent(c.Fields, PathOf(path), 1)
                                             /\ Len(nested.RequiredFields) > 0
                                          THEN 1 ELSE 0)
                                /\ at.t = "map" =>
                                       \A f \in Elements(nested.RequiredFields) :
                                           LET m == NestedFieldMessage(c.Prefix, path, f)
                                           IN  /\ Len(ErrorsAt(errors, m, c.Line))
                                                      = FlatCount(c.Prefix, rule, c.Fields, m)
                                                          + NestedCount(c.Prefix, rule,
                                                                        c.Fields, m)
                                               /\ MissingUnder(at.v, f) =>
                                                      Len(ErrorsAt(errors, m, c.Line)) >= 1

\* C12 witness: a comment "# @metadata contact.slack:a" validated against
\* nested rules for contact and for contact.primary: contact is a map
\* without email and primary.email, each reported once with its own kind of
\* message, and contact.primary is absent and reported once as a structure.
C12_Witness ==
    /\ vr.pc = "done"
    /\ Len(AllComments(vr.resource)) = 1
    /\ AllComments(vr.resource)[1].Prefix = PMeta
    /\ PMeta \in DOMAIN ResolvedRules(vr.schema, vr.resource.Type).PrefixRules
    /\ FContactPrimary \in DOMAIN
           ResolvedRules(vr.schema, vr.resource.Type).PrefixRules[PMeta].NestedFields
    /\ DOMAIN AllComments(vr.resource)[1].Fields = {FContact, ContentKey}
    /\ AllComments(vr.resource)[1].Fields[FContact].t = "map"
    /\ DOMAIN AllComments(vr.resource)[1].Fields[FContact].v = {<<"slack">>}
    /\ Len(ErrorsWith(vr.result.Errors,
               MissingStructureMessage(PMeta, FContactPrimary))) = 1
    /\ Len(ErrorsWith(vr.result.Errors,
               MissingNestedFieldMessage(PMeta, FContact \o <<".">> \o FPrimaryEmail))) = 1
    /\ Len(ErrorsWith(vr.result.Errors, MissingFieldMessage(PMeta, FContactEmail))) = 1


(***************************************************************************)
(* Field values (validator.go 308-391), on SpecValidate.                   *)
(***************************************************************************)
\* The fields of a comment that are not nested maps, at any depth, each
\* with its own name and its value.
RECURSIVE Leaves(_)
Leaves(fields) ==
    UNION {IF fields[k].t = "map" THEN Leaves(fields[k].v)
           ELSE {[name |-> k, value |-> fields[k]]} : k \in DOMAIN fields}

\* C13: for every comment whose prefix has a prefix rule and every field of
\* the comment at any depth other than _content, if field_validations has a
\* rule for the field's own name, every error that rule gives for the
\* field's value is among the validator's errors.
C13_LeafValidation ==
    vr.pc = "done" =>
        LET r == vr.resource
            errors == vr.result.Errors
            rules == ResolvedRules(vr.schema, r.Type).PrefixRules
            comments == AllComments(r)
        IN  \A i \in 1..Len(comments) :
                comments[i].Prefix \in DOMAIN rules =>
                    \A leaf \in Leaves(comments[i].Fields) :
                        (leaf.name # ContentKey
                         /\ leaf.name \in DOMAIN vr.schema.FieldValidations) =>
                            \A e \in Elements(validateFieldValue(r, comments[i],
                                         comments[i].Prefix, leaf.name, leaf.value,
                                         vr.schema.FieldValidations[leaf.name])) :
                                e \in Elements(errors)

\* C14: for every comment whose prefix has a prefix rule and every field of
\* the comment whose value is a string and for which field_validations
\* declares allowed values, there is an error naming the field and the value
\* as not allowed exactly if the value is not one of the allowed values.
C14_AllowedValues ==
    vr.pc = "done" =>
        LET r == vr.resource
            errors == vr.result.Errors
            rules == ResolvedRules(vr.schema, r.Type).PrefixRules
            comments == AllComments(r)
            validations == vr.schema.FieldValidations
        IN  \A i \in 1..Len(comments) :
                comments[i].Prefix \in DOMAIN rules =>
                    \A f \in (DOMAIN comments[i].Fields \cap DOMAIN validations)
                                 \ {ContentKey} :
                        (Len(validations[f].AllowedValues) > 0
                         /\ comments[i].Fields[f].t = "str") =>
                            ((Len(ErrorsAt(errors,
                                      FieldValueMessage(comments[i].Prefix, f,
                                          comments[i].Fields[f].v, "not in allowed values"),
                                      comments[i].Line)) >= 1)
                             <=> (comments[i].Fields[f].v
                                      \notin Elements(validations[f].AllowedValues)))


(***************************************************************************)
(* SpecMonotone: ValidateResources on one resource under a schema, then    *)
(* under the same schema with one more required prefix in one of its rule  *)
(* sets, or one more required field in one of its prefix rules or nested   *)
(* rules.  Each call ranges over its maps in an order of its own.          *)
(***************************************************************************)
AddedPrefixes == {PMeta, PDocs, PConfig}
AddedFields == {FOwner, FTeam, FContactEmail}
AddedNestedFields == {FEmail, FSlack, FPrimaryEmail}

\* The rule set with one more required prefix.
WithPrefix(rules, p) ==
    [rules EXCEPT !.RequiredPrefixes = Append(@, p)]

\* The rule set with one more required field in the rule of prefix p.
WithField(rules, p, f) ==
    [rules EXCEPT !.PrefixRules[p].RequiredFields = Append(@, f)]

\* The rule set with one more required field in the nested rule for path
\* of the rule of prefix p.
WithNestedField(rules, p, path, f) ==
    [rules EXCEPT !.PrefixRules[p].NestedFields[path].RequiredFields = Append(@, f)]

RuleSetsWithOneMore(rules) ==
    {WithPrefix(rules, p) : p \in AddedPrefixes}
        \cup UNION {{WithField(rules, p, f) : f \in AddedFields} :
                       p \in DOMAIN rules.PrefixRules}
        \cup UNION {UNION {{WithNestedField(rules, p, path, f) : f \in AddedNestedFields} :
                              path \in DOMAIN rules.PrefixRules[p].NestedFields} :
                       p \in DOMAIN rules.PrefixRules}

SchemasWithOneMore(schema) ==
    {[schema EXCEPT !.Global = g] : g \in RuleSetsWithOneMore(schema.Global)}
        \cup UNION {{[schema EXCEPT !.ResourceTypes[t] = rs] :
                        rs \in RuleSetsWithOneMore(schema.ResourceTypes[t])} :
                       t \in DOMAIN schema.ResourceTypes}

MonotoneLines ==
    {<<"#", " ", "@", "metadata", " ", "owner", ":", "a">>,
     <<"#", " ", "@", "metadata", " ", "owner", ":", "a", " ",
       "contact", ".", "email", ":", "a">>,
     <<"#", " ", "@", "metadata", " ", "owner", ":", "a", " ", "contact", ":", "a">>,
     <<"#", " ", "@", "metadata", " ", "contact", ".", "slack", ":", "a">>,
     <<"#", " ", "@", "docs", " ", "team", ":", "a">>}

MonotoneResources ==
    {parseResource([Type |-> t, Name |-> "main",
                    StartLine |-> ValidateStart, EndLine |-> ValidateStart + 2],
                   SlotComments(slots)) :
        t \in {"aws_vpc", "aws_s3_bucket"},
        slots \in [1..(MaxPreceding + 1) -> MonotoneLines \cup {<<>>}]}

InitMonotone ==
    /\ vm \in {[pc |-> "call", schema |-> sc, more |-> sc, resource |-> r,
                under |-> Idle, underMore |-> Idle] :
                  sc \in ValidateSchemas, r \in MonotoneResources}
    /\ cv = Idle /\ mc = Idle /\ lx = Idle /\ ra = Idle /\ vr = Idle
    /\ fx = Idle /\ pf = Idle /\ ap = Idle

\* ValidateResources under the schema; the schema then gets one more
\* requirement.
ValidateUnder ==
    /\ vm.pc = "call"
    /\ \E rev \in BOOLEAN, more \in SchemasWithOneMore(vm.schema) :
           vm' = [vm EXCEPT !.pc = "more", !.more = more,
                            !.under = ValidateResources(vm.schema, <<vm.resource>>, rev)]
    /\ UNCHANGED <<cv, mc, lx, ra, vr, fx, pf, ap>>

\* ValidateResources under the schema with the added requirement.
ValidateUnderMore ==
    /\ vm.pc = "more"
    /\ \E rev \in BOOLEAN :
           vm' = [vm EXCEPT !.pc = "done",
                            !.underMore = ValidateResources(vm.more, <<vm.resource>>, rev)]
    /\ UNCHANGED <<cv, mc, lx, ra, vr, fx, pf, ap>>

NextMonotone == ValidateUnder \/ ValidateUnderMore

SpecMonotone == InitMonotone /\ [][NextMonotone]_vars

CountOf(errors, e) == LET Is(x) == x = e IN Len(SelectSeq(errors, Is))

\* C15: every error emitted under the schema is emitted under the schema
\* with one more required prefix or required field, as many times at least.
C15_Monotone ==
    vm.pc = "done" =>
        \A e \in Elements(vm.under.Errors) :
            CountOf(vm.under.Errors, e) <= CountOf(vm.underMore.Errors, e)

\* C15 witness: a nested rule got one more required field; the errors under
\* the schema are all there under the extended schema, which has more.
C15_Witness ==
    /\ vm.pc = "done"
    /\ vm.more.Global.PrefixRules # vm.schema.Global.PrefixRules
    /\ \E p \in DOMAIN vm.schema.Global.PrefixRules :
           vm.more.Global.PrefixRules[p].NestedFields
               # vm.schema.Global.PrefixRules[p].NestedFields
    /\ Len(vm.under.Errors) > 0
    /\ Len(vm.underMore.Errors) > Len(vm.under.Errors)


(***************************************************************************)
(* The fixer's insertions (fixer.go 28-81, 405-422), on Spec.              *)
(***************************************************************************)
\* Sequence s is what is left of sequence t when some elements of t are
\* removed: the elements of s are in t, in the order of s.
RECURSIVE IsSubsequence(_, _)
IsSubsequence(s, t) ==
    IF s = <<>> THEN TRUE
    ELSE IF t = <<>> THEN FALSE
    ELSE IF Head(s) = Head(t) THEN IsSubsequence(Tail(s), Tail(t))
    ELSE IsSubsequence(s, Tail(t))

RECURSIVE InsertedLines(_)
InsertedLines(done) ==
    IF done = <<>> THEN 0 ELSE Len(Head(done).commentBlock) + InsertedLines(Tail(done))

\* The line "# <prefix> ..." that carries " <field>:<placeholder>".
IsFieldFixLine(schema, line, prefix, field) ==
    /\ HasPrefix(line, <<"#", " ">> \o prefix)
    /\ ContainsText(line, <<" ">> \o field \o <<":">> \o getPlaceholderValue(schema, field))

FixableFields == {FOwner, FTeam}

\* C16: after a run of the fix command that came to its end, the lines of
\* the text it read are all in the text it leaves, unchanged and in their
\* order, and the other lines of that text are the inserted comment blocks;
\* and for every error of a resource about a required field missing in a
\* comment of a present prefix, a line "# <prefix> ... <field>:<placeholder>"
\* is in the block inserted for that resource.
C16_FixOnlyInserts ==
    fx.last.outcome = "returned" =>
        /\ IsSubsequence(Split(fx.last.before, "\n"), Split(fx.file, "\n"))
        /\ Len(Split(fx.file, "\n"))
               = Len(Split(fx.last.before, "\n")) + InsertedLines(fx.last.done)
        /\ \A k \in 1..Len(fx.last.resources), p \in PrefixSet, f \in FixableFields :
               ErrorsWith(ErrorsOf(fx.last.result.Errors, fx.last.resources[k]),
                          MissingFieldMessage(p, f)) # <<>>
                   => \E i \in 1..Len(fx.last.done) :
                          /\ fx.last.done[i].resource = k
                          /\ \E j \in 1..Len(fx.last.done[i].commentBlock) :
                                 IsFieldFixLine(fx.schema,
                                                fx.last.done[i].commentBlock[j], p, f)


\* The entry " <field>:<placeholder>" of a line of a comment block, the
\* placeholder being that of the field's last name.
HasEntry(schema, line, path, field) ==
    ContainsText(line, <<" ">> \o path \o <<":">> \o getPlaceholderValue(schema, field))

\* C17: for every resource with a missing-prefix error for a prefix that has
\* a rule in the resource's resolved rule set, the block inserted for the
\* resource has a line "# <prefix> ..." with an entry field:placeholder for
\* every required field of that rule, and the block has an entry
\* nestedPath.field:placeholder for every required field of every nested
\* rule of that rule.
C17_PrefixFixComplete ==
    fx.last.outcome = "returned" =>
        \A k \in 1..Len(fx.last.resources), p \in PrefixSet :
            LET r == fx.last.resources[k]
                rules == ResolvedRules(fx.schema, r.Type).PrefixRules
            IN  (/\ ErrorsWith(ErrorsOf(fx.last.result.Errors, r),
                               MissingPrefixMessage(p)) # <<>>
                 /\ p \in DOMAIN rules) =>
                    \E i \in 1..Len(fx.last.done) :
                        LET block == fx.last.done[i].commentBlock
                        IN  /\ fx.last.done[i].resource = k
                            /\ \E j \in 1..Len(block) :
                                   /\ HasPrefix(block[j], <<"#", " ">> \o p)
                                   /\ \A f \in Elements(rules[p].RequiredFields) :
                                          HasEntry(fx.schema, block[j], f, f)
                            /\ \A n \in DOMAIN rules[p].NestedFields :
                                   \A f \in Elements(rules[p].NestedFields[n].RequiredFields) :
                                       \E j \in 1..Len(block) :
                                           HasEntry(fx.schema, block[j],
                                                    n \o <<".">> \o f, f)


(***************************************************************************)
(* SpecApp: the commands of internal/app on a directory of Terraform       *)
(* files a.tf, b.tf, ..., each with or without a backup next to it, and a  *)
(* schema file that is there and well formed, missing, or malformed.  A    *)
(* path is 0 for the directory or i for its i-th file.  A command ends by  *)
(* returning nil or an error to its caller, or by ending the process.      *)
(***************************************************************************)
AppSchema ==
    Schema(Rules(<<PMeta>>, PMeta :> PrefixRule(<<FOwner>>, EmptyMap)),
           EmptyMap, FTeam :> OneOf(<<<<"a">>>>))

SchemaFiles == [state : {"ok", "missing", "malformed"}, schema : {AppSchema}]

\* The files: one that passes; one whose comment lacks owner and has a team
\* that is not allowed; one of two resources, the first without comment;
\* one that does not parse.
MetaTeamX == <<"#", " ", "@", "metadata", " ", "team", ":", "x">>

AppTexts ==
    {Join(<<MetaOwner, OneLine("aws_vpc", "a")>>, "\n"),
     Join(<<MetaTeamX, OneLine("aws_vpc", "a")>>, "\n"),
     Join(<<OneLine("aws_vpc", "a"), MetaOwner, OneLine("aws_vpc", "b")>>, "\n"),
     Join(BrokenFile, "\n")}

Directories ==
    UNION {[1..n -> [text : AppTexts, bak : {NoFile}]] : n \in 1..MaxFiles}

NoCommand == [op |-> "none"]

\* NewSchemaValidator (validator.go 80-103) and loadSchema (fix.go
\* 139-152): the schema of the file, or an error when the file cannot be
\* opened or is not a YAML document of a schema.
NewSchemaValidator(schemaFile) ==
    IF schemaFile.state = "ok" THEN [ok |-> TRUE, schema |-> schemaFile.schema]
    ELSE [ok |-> FALSE]

\* fixSingleFile (fix.go 67-137) with the loading of the schema: what it
\* leaves of the file and its backup, and what it returns.
fixReturned(out) ==
    [file |-> [text |-> out.file, bak |-> out.bak], err |-> "none",
     fixed |-> out.last.fixed, count |-> out.last.fixCount]

fixFailed(f, err) == [file |-> f, err |-> err, fixed |-> FALSE, count |-> 0]

fixParsedFile(schemaFile, f, rev, file1) ==
    IF ~file1.ok THEN fixFailed(f, "parse")
    ELSE IF ~NewSchemaValidator(schemaFile).ok THEN fixFailed(f, "schema")
    ELSE fixReturned(parsed(schemaFile.schema, f.text, f.bak, rev, file1))

fixSingleFileOf(schemaFile, f, rev) ==
    fixParsedFile(schemaFile, f, rev, ParseFile(AppPrefixes, f.text))

logEntry(i, out) ==
    [file |-> i, err |-> out.err, fixed |-> out.fixed, count |-> out.count]

\* The files a path stands for: findTerraformFiles (fix.go 154-173) for the
\* directory, the file itself otherwise.
FilesOfPath(dir, path) == IF path = 0 THEN DOMAIN dir ELSE {path}

\* The loop of Fix stopped at the first file that fixSingleFile fails on.
RECURSIVE fixFilesUntilError(_, _, _, _, _, _), fixedUntilError(_, _, _, _, _, _, _)
fixFilesUntilError(schemaFile, dir, files, i, rev, log) ==
    IF i > Len(dir) THEN [dir |-> dir, log |-> log]
    ELSE IF i \notin files THEN fixFilesUntilError(schemaFile, dir, files, i + 1, rev, log)
    ELSE fixedUntilError(schemaFile, dir, files, i, rev, log,
                         fixSingleFileOf(schemaFile, dir[i], rev))

fixedUntilError(schemaFile, dir, files, i, rev, log, out) ==
    IF out.err # "none" THEN [dir |-> dir, log |-> Append(log, logEntry(i, out))]
    ELSE fixFilesUntilError(schemaFile, [dir EXCEPT ![i] = out.file], files,
                            i + 1, rev, Append(log, logEntry(i, out)))

\* The loop of Fix (fix.go 47-58) from file i on: a file that fixSingleFile
\* fails on is logged and the loop goes on.
RECURSIVE fixFiles(_, _, _, _, _, _), fixedFile(_, _, _, _, _, _, _)
fixFiles(schemaFile, dir, files, i, rev, log) ==
    IF i > Len(dir) THEN [dir |-> dir, log |-> log]
    ELSE IF i \notin files THEN fixFiles(schemaFile, dir, files, i + 1, rev, log)
    ELSE fixedFile(schemaFile, dir, files, i, rev, log,
                   fixSingleFileOf(schemaFile, dir[i], rev))

fixedFile(schemaFile, dir, files, i, rev, log, out) ==
    fixFiles(schemaFile, [dir EXCEPT ![i] = out.file], files, i + 1, rev,
             Append(log, logEntry(i, out)))

\* Fix (fix.go 18-65).
fixDone(out) ==
    [dir |-> out.dir, returned |-> "nil", log |-> out.log, errors |-> <<>>,
     verdict |-> "none"]

Fix(schemaFile, dir, path, rev) ==
    fixDone(fixFiles(schemaFile, dir, FilesOfPath(dir, path), 1, rev, <<>>))

\* RevertFix without the removal of the backup.
revertKeepingBackup(f) == [text |-> f.bak.text, bak |-> f.bak]

\* The body of the loop of RevertFix (fix.go 226-239): the backup is copied
\* over the file and removed.
revertFile(f) == [text |-> f.bak.text, bak |-> NoFile]

\* RevertFix (fix.go 176-247): the backups under the path are those of the
\* files that have one.
RevertFix(dir, path) ==
    LET filesToRevert == {i \in FilesOfPath(dir, path) : dir[i].bak.exists}
    IN  [dir |-> [i \in DOMAIN dir |->
                     IF i \in filesToRevert THEN revertFile(dir[i]) ELSE dir[i]],
         returned |-> "nil",
         log |-> [i \in DOMAIN dir |-> i \in filesToRevert],
         errors |-> <<>>, verdict |-> "none"]

\* The Passed of a ValidationResult as a command saw it.
VerdictOf(result) == IF result.Passed THEN "passed" ELSE "failed"

\* Validate (validate.go 16-51).
validateParsed(dir, result) ==
    [dir |-> dir, returned |-> IF result.Passed THEN "nil" ELSE "error",
     log |-> <<>>, errors |-> result.Errors, verdict |-> VerdictOf(result)]

validateFailed(dir, err) ==
    [dir |-> dir, returned |-> "error", log |-> <<err>>, errors |-> <<>>,
     verdict |-> "none"]

validateFile(schemaFile, dir, rev, file1) ==
    IF ~file1.ok THEN validateFailed(dir, "parse")
    ELSE IF ~NewSchemaValidator(schemaFile).ok THEN validateFailed(dir, "schema")
    ELSE validateParsed(dir, ValidateResources(schemaFile.schema, file1.resources, rev))

Validate(schemaFile, dir, path, rev) ==
    validateFile(schemaFile, dir, rev, ParseFile(AppPrefixes, dir[path].text))

\* The file context validateTerraformFiles adds to an error (validate.go
\* 441-445).
InFile(e, file) == [e EXCEPT !.ResourceType = <<@, " (", file, ")">>]

errorsInFile(errors, file) == [k \in 1..Len(errors) |-> InFile(errors[k], file)]

\* The result of a file added to the aggregated result (validate.go 441-451).
addResult(i, aggregatedResult, result) ==
    [Errors |-> aggregatedResult.Errors \o errorsInFile(result.Errors, i),
     Passed |-> IF ~result.Passed THEN FALSE ELSE aggregatedResult.Passed,
     log |-> aggregatedResult.log]

\* The errors of a parsed file that has resources, added to the result.
withFile(schema, i, rev, result, resources) ==
    IF Len(resources) = 0 THEN result
    ELSE addResult(i, result, ValidateResources(schema, resources, rev))

\* The loop of validateTerraformFiles (validate.go 428-452) from file i on.
RECURSIVE validateFiles(_, _, _, _, _), validatedFile(_, _, _, _, _, _)
validateFiles(schema, dir, i, rev, result) ==
    IF i > Len(dir) THEN result
    ELSE validatedFile(schema, dir, i, rev, result, ParseFile(AppPrefixes, dir[i].text))

validatedFile(schema, dir, i, rev, result, file1) ==
    IF ~file1.ok
    THEN validateFiles(schema, dir, i + 1, rev,
                       [result EXCEPT !.log = Append(result.log, i)])
    ELSE validateFiles(schema, dir, i + 1, rev,
                       withFile(schema, i, rev, result, file1.resources))

aggregated(result) ==
    [exit |-> FALSE, Errors |-> result.Errors, Passed |-> result.Passed,
     log |-> result.log]

\* validateTerraformFiles (validate.go 417-455): log.Fatalf ends the
\* process when the schema cannot be loaded.
validateTerraformFiles(schemaFile, dir, rev) ==
    IF ~NewSchemaValidator(schemaFile).ok
    THEN [exit |-> TRUE, Errors |-> <<>>, Passed |-> TRUE, log |-> <<>>]
    ELSE aggregated(validateFiles(schemaFile.schema, dir, 1, rev,
                                  [Errors |-> <<>>, Passed |-> TRUE, log |-> <<>>]))

validatedFiles(dir, result) ==
    [dir |-> dir,
     returned |-> IF result.exit THEN "exit"
                  ELSE IF result.Passed THEN "nil" ELSE "error",
     log |-> result.log, errors |-> result.Errors,
     verdict |-> IF result.exit THEN "none" ELSE VerdictOf(result)]

\* ValidateModule (validate.go 227-266) and ValidateWorkspace (validate.go
\* 269-308) on the directory: its files are those of the module's root, or
\* of the workspace.
ValidateModule(schemaFile, dir, rev) ==
    validatedFiles(dir, validateTerraformFiles(schemaFile, dir, rev))

ValidateWorkspace(schemaFile, dir, rev) ==
    validatedFiles(dir, validateTerraformFiles(schemaFile, dir, rev))

InitApp ==
    /\ ap \in {[schemaFile |-> sf, dir |-> d, ops |-> 0, last |-> NoCommand] :
                  sf \in SchemaFiles, d \in Directories}
    /\ cv = Idle /\ mc = Idle /\ lx = Idle /\ ra = Idle /\ vr = Idle
    /\ fx = Idle
    /\ pf = Idle /\ vm = Idle

ran(state, op, path, out) ==
    [state EXCEPT !.dir = out.dir, !.ops = state.ops + 1,
                  !.last = [op |-> op, path |-> path, returned |-> out.returned,
                            log |-> out.log, errors |-> out.errors,
                            verdict |-> out.verdict, before |-> state.dir]]

FixCall ==
    /\ ap.ops < MaxOps
    /\ \E path \in 0..Len(ap.dir), rev \in BOOLEAN :
           ap' = ran(ap, "Fix", path, Fix(ap.schemaFile, ap.dir, path, rev))
    /\ UNCHANGED <<cv, mc, lx, ra, vr, fx, pf, vm>>

RevertFixCall ==
    /\ ap.ops < MaxOps
    /\ \E path \in 0..Len(ap.dir) :
           ap' = ran(ap, "RevertFix", path, RevertFix(ap.dir, path))
    /\ UNCHANGED <<cv, mc, lx, ra, vr, fx, pf, vm>>

ValidateCall ==
    /\ ap.ops < MaxOps
    /\ \E path \in 1..Len(ap.dir), rev \in BOOLEAN :
           ap' = ran(ap, "Validate", path, Validate(ap.schemaFile, ap.dir, path, rev))
    /\ UNCHANGED <<cv, mc, lx, ra, vr, fx, pf, vm>>

ValidateModuleCall ==
    /\ ap.ops < MaxOps
    /\ \E rev \in BOOLEAN :
           ap' = ran(ap, "ValidateModule", 0, ValidateModule(ap.schemaFile, ap.dir, rev))
    /\ UNCHANGED <<cv, mc, lx, ra, vr, fx, pf, vm>>

ValidateWorkspaceCall ==
    /\ ap.ops < MaxOps
    /\ \E rev \in BOOLEAN :
           ap' = ran(ap, "ValidateWorkspace", 0,
                     ValidateWorkspace(ap.schemaFile, ap.dir, rev))
    /\ UNCHANGED <<cv, mc, lx, ra, vr, fx, pf, vm>>

NextApp ==
    \/ FixCall
    \/ RevertFixCall
    \/ ValidateCall
    \/ ValidateModuleCall
    \/ ValidateWorkspaceCall

SpecApp == InitApp /\ [][NextApp]_vars


Backup(text) == [text |-> text, exists |-> TRUE]

(***************************************************************************)
(* C18: a run of Fix leaves, next to every file it fixed, a backup with    *)
(* the text the file had before the run; and a RevertFix that follows a    *)
(* run of Fix, on the directory or on a file, gives every file under its   *)
(* path that the run fixed the text it had before the run, and leaves no   *)
(* backup of it.                                                           *)
(***************************************************************************)
C18_BackupRevert ==
    [][/\ ap'.last.op = "Fix" =>
              \A k \in 1..Len(ap'.last.log) :
                  ap'.last.log[k].fixed =>
                      ap'.dir[ap'.last.log[k].file].bak
                          = Backup(ap.dir[ap'.last.log[k].file].text)
       /\ (ap.last.op = "Fix" /\ ap'.last.op = "RevertFix") =>
              \A k \in 1..Len(ap.last.log) :
                  (/\ ap.last.log[k].fixed
                   /\ ap.last.log[k].file \in FilesOfPath(ap.dir, ap'.last.path)) =>
                      /\ ap'.dir[ap.last.log[k].file].text
                             = ap.last.before[ap.last.log[k].file].text
                      /\ ~ap'.dir[ap.last.log[k].file].bak.exists]_vars

\* C18 witness: RevertFix on the directory has put back a file that a run
\* of Fix had changed: the file has the text of the backup, which differs
\* from the text it had, and the backup is gone.
C18_Witness ==
    /\ ap.last.op = "RevertFix"
    /\ ap.last.path = 0
    /\ \E i \in DOMAIN ap.dir :
           /\ ap.last.log[i]
           /\ ap.last.before[i].bak.exists
           /\ ap.dir[i].text = ap.last.before[i].bak.text
           /\ ap.dir[i].text # ap.last.before[i].text
           /\ ~ap.dir[i].bak.exists

EntryPoints == {"Validate", "ValidateModule", "ValidateWorkspace", "Fix"}

\* C19: when the schema file is missing or malformed, Validate,
\* ValidateModule, ValidateWorkspace and Fix each return an error to the
\* caller: they neither return nil nor end the process.
C19_SchemaErrorReturned ==
    (ap.last.op \in EntryPoints /\ ap.schemaFile.state # "ok") =>
        ap.last.returned = "error"

Parses(f) == ParseFile(AppPrefixes, f.text).ok

\* The errors module and workspace validation report for the files from i
\* on: those of each file that parses, in the order of the files.
RECURSIVE ReportedFrom(_, _, _, _)
ReportedFrom(schema, dir, i, rev) ==
    IF i > Len(dir) THEN <<>>
    ELSE (IF Parses(dir[i])
          THEN errorsInFile(ValidateResources(schema,
                                ParseFile(AppPrefixes, dir[i].text).resources, rev).Errors,
                            i)
          ELSE <<>>)
             \o ReportedFrom(schema, dir, i + 1, rev)

(***************************************************************************)
(* C20: after Fix on the directory, every file was gone through in order;  *)
(* a file that does not parse is as it was, with no new backup, and every  *)
(* other file and its backup are what fixSingleFile alone makes of them.   *)
(* After ValidateModule or ValidateWorkspace that did not end the process, *)
(* the files that do not parse are logged and the errors reported are      *)
(* those of all the other files, in order.                                 *)
(***************************************************************************)
C20_LogAndSkip ==
    /\ (ap.last.op = "Fix" /\ ap.last.path = 0) =>
           /\ Len(ap.last.log) = Len(ap.dir)
           /\ \A i \in DOMAIN ap.dir :
                  /\ ap.last.log[i].file = i
                  /\ IF ~Parses(ap.last.before[i])
                     THEN /\ ap.dir[i] = ap.last.before[i]
                          /\ ap.last.log[i].err = "parse"
                          /\ ~ap.last.log[i].fixed
                     ELSE \E rev \in BOOLEAN :
                              LET alone == fixSingleFileOf(ap.schemaFile,
                                                           ap.last.before[i], rev)
                              IN  /\ ap.dir[i] = alone.file
                                  /\ ap.last.log[i] = logEntry(i, alone)
    /\ (ap.last.op \in {"ValidateModule", "ValidateWorkspace"}
            /\ ap.last.returned # "exit") =>
           /\ \E rev \in BOOLEAN :
                  ap.last.errors = ReportedFrom(ap.schemaFile.schema, ap.dir, 1, rev)
           /\ \A i \in DOMAIN ap.dir :
                  ~Parses(ap.dir[i]) <=> (\E k \in 1..Len(ap.last.log) : ap.last.log[k] = i)

\* C20 witness: Fix on a directory whose first file does not parse and
\* whose second file lacks a comment: the first is as it was and has no
\* backup, the second got its fix and its backup.
C20_Witness ==
    /\ ap.last.op = "Fix"
    /\ ap.last.path = 0
    /\ ap.schemaFile.state = "ok"
    /\ Len(ap.dir) = 2
    /\ ~Parses(ap.last.before[1])
    /\ ap.dir[1] = ap.last.before[1]
    /\ ~ap.dir[1].bak.exists
    /\ ap.last.log[2].fixed
    /\ ap.last.log[2].count = 1
    /\ ap.dir[2].text # ap.last.before[2].text
    /\ ap.dir[2].bak = Backup(ap.last.before[2].text)

\* Every resource of the file produces no error, in either order of the
\* prefix rules.
Clean(schema, f) ==
    LET resources == ParseFile(AppPrefixes, f.text).resources
    IN  \A k \in 1..Len(resources), rev \in BOOLEAN :
            validateResource(schema, resources[k], rev) = <<>>

\* C22: the result ValidateResources gave Validate for a file has Passed
\* true exactly when its Errors are empty, which is exactly when every
\* resource of the file produced no error; the aggregated result of
\* ValidateModule and ValidateWorkspace has Passed true exactly when its
\* Errors are empty, which is exactly when every resource of every file that
\* parsed produced no error; and the command returns nil exactly then.
C22_PassVerdict ==
    /\ (ap.last.op = "Validate" /\ ap.last.verdict # "none") =>
           /\ ap.last.verdict = "passed" <=> ap.last.errors = <<>>
           /\ ap.last.verdict = "passed"
                  <=> Clean(ap.schemaFile.schema, ap.dir[ap.last.path])
           /\ ap.last.returned = "nil" <=> ap.last.verdict = "passed"
    /\ (ap.last.op \in {"ValidateModule", "ValidateWorkspace"}
            /\ ap.last.verdict # "none") =>
           /\ ap.last.verdict = "passed" <=> ap.last.errors = <<>>
           /\ ap.last.verdict = "passed"
                  <=> \A i \in DOMAIN ap.dir :
                          Parses(ap.dir[i]) => Clean(ap.schemaFile.schema, ap.dir[i])
           /\ ap.last.returned = "nil" <=> ap.last.verdict = "passed"

\* C22 witness: ValidateModule on two files, the first with a resource
\* without comment followed by a resource that has its comment, the second
\* with nothing to report, has failed with the one error of the first file.
C22_Witness ==
    /\ ap.last.op = "ValidateModule"
    /\ Len(ap.dir) = 2
    /\ Len(ParseFile(AppPrefixes, ap.dir[1].text).resources) = 2
    /\ ~Clean(ap.schemaFile.schema, ap.dir[1])
    /\ Parses(ap.dir[2]) /\ Clean(ap.schemaFile.schema, ap.dir[2])
    /\ ap.last.verdict = "failed"
    /\ Len(ap.last.errors) = 1
    /\ ap.last.errors[1].ResourceName = "a"

(***************************************************************************)
(* Repeated runs of the fix command, on Spec.                              *)
(***************************************************************************)
\* There are errors and each is a missing required prefix or a missing
\* required field, the two kinds generateFixes makes fixes for.
OnlyFixable(errors) ==
    /\ errors # <<>>
    /\ \A i \in 1..Len(errors) :
           \/ HasPrefix(errors[i].Message, MissingPrefixPhrase)
           \/ ContainsText(errors[i].Message, MissingFieldPhrase)

\* C23: when the errors a run of the fix command found were only missing
\* prefixes and missing fields, the file passes validation at the latest
\* after the run that follows it, and if it passed already after the first
\* of the two runs the second leaves the text as it is: repeated runs reach
\* a passing file and the file does not grow from run to run.
C23_Convergence ==
    [][(fx.last.outcome = "returned" /\ OnlyFixable(fx.last.result.Errors)) =>
           /\ fx'.last.outcome = "returned"
           /\ fx'.last.newResult.Passed
           /\ fx.last.newResult.Passed => fx'.file = fx.file]_vars

(***************************************************************************)
(* Several insertions in one call of FixFile, on Spec.                     *)
(***************************************************************************)
\* Where a line that is at index pos (from 0) after insertion i is in the
\* text FixFile returns: every later insertion at or above it moves it down.
RECURSIVE ShiftedBy(_, _, _)
ShiftedBy(done, j, pos) ==
    IF j > Len(done) THEN pos
    ELSE ShiftedBy(done, j + 1,
                   IF done[j].insertLine <= pos
                   THEN pos + Len(done[j].commentBlock) ELSE pos)

\* The line, counted from 1, of line l of the block of insertion i in the
\* text FixFile returns.
WrittenLine(done, i, l) == ShiftedBy(done, i + 1, done[i].insertLine + l - 1) + 1

\* The line is a line of one of the comments.
InComments(comments, line) ==
    \E c \in 1..Len(comments) : comments[c].Line <= line /\ line <= comments[c].EndLine

\* C24: when one call of FixFile inserted blocks for several resources, the
\* text each block was inserted into had the declaration of its resource on
\* the line the insertion point was computed from, and in the re-parsed file
\* every line of every inserted block belongs to a preceding comment of the
\* resource it was generated for and to no comment of another resource.
C24_LineOffsets ==
    (fx.last.outcome = "returned" /\ Len(fx.last.done) >= 2) =>
        \A i \in 1..Len(fx.last.done) :
            LET d == fx.last.done[i]
            IN  /\ DeclaredAt(d.before, fx.last.resources[d.resource])
                /\ \A l \in 1..Len(d.commentBlock) :
                       LET line == WrittenLine(fx.last.done, i, l)
                       IN  /\ InComments(fx.last.newResources[d.resource].PrecedingComments,
                                         line)
                           /\ \A k \in 1..Len(fx.last.newResources) :
                                  k # d.resource =>
                                      ~InComments(AllComments(fx.last.newResources[k]), line)

(***************************************************************************)
(* What a fix adds, on Spec.                                               *)
(***************************************************************************)
\* The error is among the errors, for the same resource and with the same
\* message.
Reported(errors, e) ==
    \E i \in 1..Len(errors) :
        /\ errors[i].ResourceType = e.ResourceType
        /\ errors[i].ResourceName = e.ResourceName
        /\ errors[i].Message = e.Message

\* C25: after a run of the fix command that fixed the file, every error of
\* the written file, parsed and validated again, was reported before the
\* run for the same resource with the same message: no placeholder written
\* breaks the rule of its field and no inserted comment misses a field.
C25_NoNewViolations ==
    (fx.last.outcome = "returned" /\ fx.last.fixed) =>
        \A j \in 1..Len(fx.last.newResult.Errors) :
            Reported(fx.last.result.Errors, fx.last.newResult.Errors[j])

(***************************************************************************)
(* The orders Go ranges over its maps in, on Spec.                         *)
(***************************************************************************)
\* C26: after a run of the fix command that fixed the file, FixFile on the
\* text, schema, resources and errors of the run gives the text and the
\* count of the run in whichever order its maps are ranged over; and the
\* validator reports the same set of errors for the resources of the run in
\* whichever order the prefix rules are ranged over.
C26_Determinism ==
    (fx.last.outcome = "returned" /\ fx.last.fixed) =>
        \A rev \in BOOLEAN :
            /\ FixFile(fx.schema, fx.last.before, fx.last.resources,
                       fx.last.result.Errors, rev).content = fx.file
            /\ FixFile(fx.schema, fx.last.before, fx.last.resources,
                       fx.last.result.Errors, rev).fixCount = fx.last.fixCount
            /\ Elements(ValidateResources(fx.schema, fx.last.resources, rev).Errors)
                   = Elements(fx.last.result.Errors)

(***************************************************************************)
(* C27: a run of Fix leaves the backup of a file as it is when the file    *)
(* has a backup that differs from it, that is, when an earlier run of Fix  *)
(* changed the file and no RevertFix came since: the backup keeps the text *)
(* the file had before the first run that changed it.                      *)
(***************************************************************************)
C27_BackupPreserved ==
    [][ap'.last.op = "Fix" =>
           \A i \in FilesOfPath(ap.dir, ap'.last.path) :
               (ap.dir[i].bak.exists /\ ap.dir[i].bak.text # ap.dir[i].text) =>
                   ap'.dir[i].bak = ap.dir[i].bak]_vars

(***************************************************************************)
(* The comments of the resources of one file, on Spec.                     *)
(***************************************************************************)
\* C28: in the file a run of the fix command parsed, no structured comment
\* is attached to two resources: a comment among the preceding or inline
\* comments of one resource is not among those of another.
C28_LocalAssociation ==
    fx.last.outcome = "returned" =>
        \A k, j \in 1..Len(fx.last.resources) :
            k # j =>
                \A c \in 1..Len(AllComments(fx.last.resources[k])) :
                    ~InSeq(AllComments(fx.last.resources[k])[c],
                           AllComments(fx.last.resources[j]))

(***************************************************************************)
(* Blocks that end on the line above a declaration, on SpecAssoc.          *)
(***************************************************************************)
\* C29: a comment block whose last line is the line directly above the line
\* of the declaration is among the PrecedingComments of the resource,
\* however many lines the block has.
C29_AdjacentBlocks ==
    ra.pc = "done" =>
        \A i \in 1..Len(ra.comments) :
            ra.comments[i].EndLine = ra.block.StartLine - 1 =>
                InSeq(ra.comments[i], ra.resource.PrecedingComments)

=============================================================================
